---- MODULE Spec2Model ----
(***************************************************************************)
(* Model of the resume structuring engine of ColdApproach-AI:              *)
(*   app/utils/resume_parser.py  (classifier, segmenter, extractors)       *)
(*   app/routes/resume_route.py  (the upload handler)                      *)
(*                                                                         *)
(* Text is modelled by TLA+ strings, on which TLC evaluates Len, SubSeq,   *)
(* Head, Tail and \o character by character.  Three characters of the      *)
(* source that a TLA+ string literal cannot hold are written with ASCII    *)
(* stand-ins that occur nowhere else in the inputs:                        *)
(*     BULLET  "*"  for U+2022,  ENDASH "~" for U+2013,  EMDASH "^" for    *)
(*     U+2014.                                                             *)
(* An optional value (Python None or a value) is a sequence of length 0    *)
(* or 1.                                                                   *)
(***************************************************************************)
EXTENDS Integers, Sequences, FiniteSets, TLC

VARIABLES
    pc,               \* position of the call in progress
    entry,            \* "upload" (POST /resume/upload) or "direct" (extract_structured_data)
    file,             \* the uploaded file of the call
    resume_text,      \* the text the pipeline works on
    status,           \* HTTP status of the response, 0 while none
    detail,           \* detail string of a failed response
    raised,           \* the exception in flight: "" when none
    invoked,          \* the functions invoked so far in this call, in order
    accepted,         \* the classifier's verdict, <<>> before it ran
    lines,            \* _parse_sections: lines
    idx,              \* _parse_sections: index of the next line of the loop
    sections,         \* _parse_sections: sections (an insertion-ordered dict)
    current_section,  \* _parse_sections: current_section (<<>> is None)
    current_content,  \* _parse_sections: current_content
    exp,              \* _extract_experience: its locals
    edu,              \* _extract_education: its locals
    formatted,        \* format_resume: formatted
    fed,              \* the section text passed to each sub-extractor in this call
    ncall,            \* number of the call in progress on this input
    earlier,          \* the profiles returned by the earlier calls on this input
    parked,           \* the call that runs beside this one and is not scheduled now
    find_result       \* find_contacts: the response body (<<>> while none)

vars == <<pc, entry, file, resume_text, status, detail, raised, invoked, accepted,
          lines, idx, sections, current_section, current_content, exp, edu, formatted, fed,
          ncall, earlier, parked, find_result>>

-----------------------------------------------------------------------------
(* Characters and the str methods the code uses.                           *)

BULLET == "*"
ENDASH == "~"
EMDASH == "^"

Digits == {"0", "1", "2", "3", "4", "5", "6", "7", "8", "9"}

UpperCase == {"A", "B", "C", "D", "E", "F", "G", "H", "I", "J", "K", "L", "M",
              "N", "O", "P", "Q", "R", "S", "T", "U", "V", "W", "X", "Y", "Z"}

LowerCase == {"a", "b", "c", "d", "e", "f", "g", "h", "i", "j", "k", "l", "m",
              "n", "o", "p", "q", "r", "s", "t", "u", "v", "w", "x", "y", "z"}

Letters == UpperCase \cup LowerCase

\* str.strip() with no argument and the regex class \s
Whitespace == {" ", "\t", "\n", "\r"}

Ch(s, i) == SubSeq(s, i, i)

LowerCh(c) ==
    CASE c = "A" -> "a" [] c = "B" -> "b" [] c = "C" -> "c" [] c = "D" -> "d"
      [] c = "E" -> "e" [] c = "F" -> "f" [] c = "G" -> "g" [] c = "H" -> "h"
      [] c = "I" -> "i" [] c = "J" -> "j" [] c = "K" -> "k" [] c = "L" -> "l"
      [] c = "M" -> "m" [] c = "N" -> "n" [] c = "O" -> "o" [] c = "P" -> "p"
      [] c = "Q" -> "q" [] c = "R" -> "r" [] c = "S" -> "s" [] c = "T" -> "t"
      [] c = "U" -> "u" [] c = "V" -> "v" [] c = "W" -> "w" [] c = "X" -> "x"
      [] c = "Y" -> "y" [] c = "Z" -> "z" [] OTHER -> c

\* str.lower()
RECURSIVE Lower(_)
Lower(s) ==
    IF Len(s) = 0 THEN ""
    ELSE IF Len(s) = 1 THEN LowerCh(s)
    ELSE Lower(SubSeq(s, 1, Len(s) \div 2)) \o Lower(SubSeq(s, Len(s) \div 2 + 1, Len(s)))

\* str.startswith(p)
StartsWith(s, p) == Len(p) <= Len(s) /\ SubSeq(s, 1, Len(p)) = p

\* k in s
Contains(s, k) ==
    \E i \in 1..(Len(s) - Len(k) + 1) : SubSeq(s, i, i + Len(k) - 1) = k

\* str.find(k) + 1: the position of the first occurrence, 0 when there is none
Find(s, k) ==
    LET hits == {i \in 1..(Len(s) - Len(k) + 1) : SubSeq(s, i, i + Len(k) - 1) = k}
    IN  IF hits = {} THEN 0 ELSE CHOOSE i \in hits : \A j \in hits : i <= j

\* str.lstrip(chars), str.rstrip(chars), str.strip(chars)
RECURSIVE LStripSet(_, _)
LStripSet(s, cs) ==
    IF Len(s) > 0 /\ Head(s) \in cs THEN LStripSet(Tail(s), cs) ELSE s

RECURSIVE RStripSet(_, _)
RStripSet(s, cs) ==
    IF Len(s) > 0 /\ Ch(s, Len(s)) \in cs
    THEN RStripSet(SubSeq(s, 1, Len(s) - 1), cs) ELSE s

StripSet(s, cs) == RStripSet(LStripSet(s, cs), cs)

\* str.strip()
Strip(s) == StripSet(s, Whitespace)

\* str.split(sep) for a one-character sep: always at least one part
RECURSIVE Split(_, _)
Split(s, sep) ==
    LET p == Find(s, sep)
    IN  IF p = 0 THEN <<s>>
        ELSE <<SubSeq(s, 1, p - 1)>> \o Split(SubSeq(s, p + 1, Len(s)), sep)

\* str.split(sep, 1)
Split1(s, sep) ==
    LET p == Find(s, sep)
    IN  IF p = 0 THEN <<s>>
        ELSE <<SubSeq(s, 1, p - 1), SubSeq(s, p + 1, Len(s))>>

\* the length of the run of characters of cs that starts at position i
RECURSIVE Run(_, _, _)
Run(s, i, cs) ==
    IF i <= Len(s) /\ Ch(s, i) \in cs THEN 1 + Run(s, i + 1, cs) ELSE 0

\* str.split() with no argument: the maximal runs of non-whitespace
RECURSIVE Words(_)
Words(s) ==
    LET t == LStripSet(s, Whitespace)
        n == IF Len(t) = 0 THEN 0
             ELSE CHOOSE k \in 1..Len(t) :
                      /\ \A j \in 1..k : Ch(t, j) \notin Whitespace
                      /\ (k = Len(t) \/ Ch(t, k + 1) \in Whitespace)
    IN  IF Len(t) = 0 THEN <<>>
        ELSE <<SubSeq(t, 1, n)>> \o Words(SubSeq(t, n + 1, Len(t)))

\* sep.join(parts)
RECURSIVE Join(_, _)
Join(parts, sep) ==
    IF Len(parts) = 0 THEN ""
    ELSE IF Len(parts) = 1 THEN parts[1]
    ELSE parts[1] \o sep \o Join(Tail(parts), sep)

\* [f(x) for x in seq if p(x)] helpers
RECURSIVE SelectNonEmpty(_)
SelectNonEmpty(seq) ==
    IF Len(seq) = 0 THEN <<>>
    ELSE (IF Len(seq[1]) > 0 THEN <<seq[1]>> ELSE <<>>) \o SelectNonEmpty(Tail(seq))

StripAll(seq) == [i \in 1..Len(seq) |-> Strip(seq[i])]

\* seq[:n]
Take(seq, n) == SubSeq(seq, 1, IF Len(seq) < n THEN Len(seq) ELSE n)

Some(v) == <<v>>
None == <<>>

-----------------------------------------------------------------------------
(* Line classifier utilities: resume_parser.py 176-193, and the regular    *)
(* expressions of the extractors.  Every pattern is compiled with          *)
(* re.IGNORECASE, so the matchers below work on the lower-cased line;      *)
(* Lower keeps lengths, so positions are those of the original line.       *)

Months == {"jan", "feb", "mar", "apr", "may", "jun",
           "jul", "aug", "sep", "oct", "nov", "dec"}

Dashes == {"-", ENDASH, EMDASH}

\* s[i:i+n] when it lies inside s, "" otherwise
Slice(s, i, n) == IF i >= 1 /\ i + n - 1 <= Len(s) THEN SubSeq(s, i, i + n - 1) ELSE ""

\* \d{4} at position i
Year4At(s, i) ==
    /\ i >= 1 /\ i + 3 <= Len(s)
    /\ \A j \in i..(i + 3) : Ch(s, j) \in Digits

\* (Jan|...|Dec)[a-z]*\s+\d{4} at position i: the length matched, 0 for no match
MonthYearAt(s, i) ==
    IF Slice(s, i, 3) \notin Months THEN 0
    ELSE LET r == Run(s, i + 3, LowerCase)
             w == Run(s, i + 3 + r, Whitespace)
         IN  IF w >= 1 /\ Year4At(s, i + 3 + r + w) THEN 3 + r + w + 4 ELSE 0

\* \s*[-–—]\s* at position i: the length matched, 0 for no match
DashAt(s, i) ==
    LET w == Run(s, i, Whitespace)
    IN  IF Slice(s, i + w, 1) \in Dashes
        THEN w + 1 + Run(s, i + w + 1, Whitespace) ELSE 0

\* \d{4}\s*[-–—]\s*(Present|Current|\d{4})
YearRangeAt(s, i) ==
    /\ Year4At(s, i)
    /\ DashAt(s, i + 4) > 0
    /\ LET e == i + 4 + DashAt(s, i + 4)
       IN  Slice(s, e, 7) \in {"present", "current"} \/ Year4At(s, e)

\* Mon YYYY\s*[-–—]\s*(Present|Current|Mon YYYY)
MonthRangeAt(s, i) ==
    LET m == MonthYearAt(s, i)
    IN  /\ m > 0
        /\ DashAt(s, i + m) > 0
        /\ LET e == i + m + DashAt(s, i + m)
           IN  Slice(s, e, 7) \in {"present", "current"} \/ MonthYearAt(s, e) > 0

\* _is_date_range: any(re.search(pattern, text) for pattern in date_patterns)
is_date_range(text) ==
    LET s == Lower(text)
    IN  \/ \E i \in 1..Len(s) : YearRangeAt(s, i)
        \/ \E i \in 1..Len(s) : MonthRangeAt(s, i)
        \/ \E i \in 1..Len(s) : MonthYearAt(s, i) > 0

\* _is_email: the index [1] of text.split('@') is evaluated only under the
\* guard "if '@' in text"
is_email(text) ==
    IF Contains(text, "@") THEN Contains(Split(text, "@")[2], ".") ELSE FALSE

\* _is_email raises IndexError where split('@') is indexed without a second part
is_email_raises_unguarded(text) == Len(Split(text, "@")) < 2

is_email_raises(text) == Contains(text, "@") /\ Len(Split(text, "@")) < 2

\* _is_url
UrlPrefixes == <<"http://", "https://", "www.", "linkedin.com", "github.com">>

is_url(text) == \E i \in 1..Len(UrlPrefixes) : StartsWith(text, UrlPrefixes[i])

-----------------------------------------------------------------------------
(* Document validity classifier: resume_parser.py 36-76.                   *)

MinResumeLen == 50
MinSections == 2
MinKeywords == 3

resume_sections ==
    <<"education", "experience", "work experience", "employment",
      "skills", "technical skills", "qualifications",
      "summary", "objective", "about", "profile">>

resume_keywords ==
    <<"university", "college", "degree", "bachelor", "master",
      "intern", "engineer", "developer", "software", "programming",
      "gpa", "graduated", "certification", "project">>

\* sum(1 for k in list if k in text)
RECURSIVE CountIn(_, _)
CountIn(list, text) ==
    IF Len(list) = 0 THEN 0
    ELSE (IF Contains(text, list[1]) THEN 1 ELSE 0) + CountIn(Tail(list), text)

TooShortStrict(text) == Len(text) = 0 \/ Len(Strip(text)) <= MinResumeLen

\* line 51
TooShort(text) == Len(text) = 0 \/ Len(Strip(text)) < MinResumeLen

\* is_resume counting on resume_text in place of text_lower (line 54 left out)
is_resume_cased(text) ==
    IF TooShort(text) THEN FALSE
    ELSE LET section_count == CountIn(resume_sections, text)
             keyword_count == CountIn(resume_keywords, text)
         IN  section_count >= MinSections \/ keyword_count >= MinKeywords

is_resume(text) ==
    IF TooShort(text) THEN FALSE
    ELSE LET text_lower == Lower(text)
             section_count == CountIn(resume_sections, text_lower)
             keyword_count == CountIn(resume_keywords, text_lower)
         IN  section_count >= MinSections \/ keyword_count >= MinKeywords

-----------------------------------------------------------------------------
(* Section segmenter: resume_parser.py 196-260.                            *)
(* The dict `sections` is a sequence of entries in insertion order; an     *)
(* entry's value is a str (islist = FALSE, text) or, for the key           *)
(* 'header', a list of lines (islist = TRUE, items).                       *)

StrEntry(name, text) == [name |-> name, islist |-> FALSE, text |-> text, items |-> <<>>]
ListEntry(name, items) == [name |-> name, islist |-> TRUE, text |-> "", items |-> items]

DictHas(d, name) == \E i \in 1..Len(d) : d[i].name = name

DictIndex(d, name) == CHOOSE i \in 1..Len(d) : d[i].name = name

\* d[name] = value: a new key goes last, an existing key keeps its place
DictSet(d, e) ==
    IF DictHas(d, e.name)
    THEN [d EXCEPT ![DictIndex(d, e.name)] = e]
    ELSE Append(d, e)

DictGet(d, name) == d[DictIndex(d, name)]

\* lines 206-212
section_keywords ==
    <<"work experience", "technical skills", "work history",
      "education", "experience", "employment",
      "skills", "technical", "technologies", "competencies",
      "summary", "about", "profile", "objective", "projects", "achievements",
      "certifications", "publications", "awards">>

ContainsMinLen == 5

\* lines 225-228 with >= in place of > in the length test
is_header_for_short(line_lower, keyword) ==
    \/ line_lower = keyword
    \/ StartsWith(line_lower, keyword \o " ")
    \/ StartsWith(line_lower, keyword \o ":")
    \/ (Len(keyword) >= ContainsMinLen /\ Contains(line_lower, keyword))

\* lines 225-228
is_header_for(line_lower, keyword) ==
    \/ line_lower = keyword
    \/ StartsWith(line_lower, keyword \o " ")
    \/ StartsWith(line_lower, keyword \o ":")
    \/ (Len(keyword) > ContainsMinLen /\ Contains(line_lower, keyword))

\* the loop of lines 222-236 without its break: the last matching keyword wins
matched_keyword_last(line_lower) ==
    LET hits == {k \in 1..Len(section_keywords) :
                    is_header_for(line_lower, section_keywords[k])}
    IN  IF hits = {} THEN 0 ELSE CHOOSE k \in hits : \A j \in hits : j <= k

\* the index of the keyword the loop of lines 222-236 breaks on, 0 when the
\* line is no header
matched_keyword(line_lower) ==
    LET hits == {k \in 1..Len(section_keywords) :
                    is_header_for(line_lower, section_keywords[k])}
    IN  IF hits = {} THEN 0 ELSE CHOOSE k \in hits : \A j \in hits : k <= j

\* lines 231-232 and 248-249: sections[current_section] = '\n'.join(current_content)
flush_section(secs, cur, content) ==
    IF cur = None THEN secs
    ELSE DictSet(secs, StrEntry(cur[1], Join(content, "\n")))

\* lines 242-245: content before the first header
add_header_line(secs, line_stripped) ==
    LET withkey == IF DictHas(secs, "header") THEN secs
                   ELSE Append(secs, ListEntry("header", <<>>))
        h == DictGet(withkey, "header")
    IN  IF h.islist
        THEN DictSet(withkey, ListEntry("header", Append(h.items, line_stripped)))
        ELSE withkey

\* the loop body with the header line itself appended to the content of the
\* section it opens
seg_step_keeps_header(secs, cur, content, raw) ==
    LET line_stripped == Strip(raw)
        line_lower == Lower(line_stripped)
        k == matched_keyword(line_lower)
        same == [sections |-> secs, current_section |-> cur, current_content |-> content]
    IN  IF Len(line_stripped) = 0 THEN same
        ELSE IF k > 0
        THEN [sections |-> flush_section(secs, cur, content),
              current_section |-> Some(Lower(section_keywords[k])),
              current_content |-> <<line_stripped>>]
        ELSE IF cur # None
        THEN [same EXCEPT !.current_content = Append(content, line_stripped)]
        ELSE [same EXCEPT !.sections = add_header_line(secs, line_stripped)]

\* one iteration of the loop of lines 214-245 on the locals of _parse_sections
seg_step(secs, cur, content, raw) ==
    LET line_stripped == Strip(raw)
        line_lower == Lower(line_stripped)
        k == matched_keyword(line_lower)
        same == [sections |-> secs, current_section |-> cur, current_content |-> content]
    IN  IF Len(line_stripped) = 0 THEN same
        ELSE IF k > 0
        THEN [sections |-> flush_section(secs, cur, content),
              current_section |-> Some(Lower(section_keywords[k])),
              current_content |-> <<>>]
        ELSE IF cur # None
        THEN [same EXCEPT !.current_content = Append(content, line_stripped)]
        ELSE [same EXCEPT !.sections = add_header_line(secs, line_stripped)]

\* _find_section: the first keyword, and for it the first section in
\* insertion order, with keyword.lower() in section_name.lower()
find_section(secs, keywords) ==
    LET hits == {p \in (1..Len(keywords)) \X (1..Len(secs)) :
                     Contains(Lower(secs[p[2]].name), Lower(keywords[p[1]]))}
        first == CHOOSE p \in hits : \A q \in hits :
                     p[1] < q[1] \/ (p[1] = q[1] /\ p[2] <= q[2])
    IN  IF hits = {} THEN None ELSE Some(secs[first[2]])

\* the truth value of "if skills_section:" (lines 155, 160, 165, 170)
Truthy(found) ==
    /\ found # None
    /\ IF found[1].islist THEN Len(found[1].items) > 0 ELSE Len(found[1].text) > 0

\* the preference lists of lines 154, 159, 164, 169
skills_pref == <<"skills", "technical skills", "technical", "technologies">>
experience_pref == <<"experience", "work experience", "employment", "work history">>
education_pref == <<"education", "academic", "qualifications">>
summary_pref == <<"summary", "about", "profile", "objective">>

-----------------------------------------------------------------------------
(* Skills extractor: resume_parser.py 263-329.                             *)

MaxSkills == 50
MaxItemLen == 50
StopWords == {"and", "or", "the", "a", "an"}

\* re.split(r'[•\-]\s*', line)
RECURSIVE ReSplitBullets(_)
ReSplitBullets(s) ==
    LET hits == {i \in 1..Len(s) : Ch(s, i) \in {BULLET, "-"}}
        p == CHOOSE i \in hits : \A j \in hits : i <= j
    IN  IF hits = {} THEN <<s>>
        ELSE <<SubSeq(s, 1, p - 1)>>
             \o ReSplitBullets(SubSeq(s, p + 1 + Run(s, p + 1, Whitespace), Len(s)))

\* the split of lines 291-300 (after a colon) and 302-307
split_items(part) ==
    IF Contains(part, ",") THEN StripAll(Split(part, ","))
    ELSE IF Contains(part, "|") THEN StripAll(Split(part, "|"))
    ELSE <<>>

\* the items one line of the loop of lines 278-315 adds to `skills`
skill_items(raw) ==
    LET line == Strip(raw)
    IN  IF Len(line) = 0 \/ StartsWith(line, BULLET) \/ StartsWith(line, "-") THEN <<>>
        ELSE IF Contains(line, ":")
        THEN LET parts == Split1(line, ":")
                 skills_part == Strip(parts[2])
             IN  IF Len(parts) # 2 THEN <<>>
                 ELSE IF Contains(skills_part, ",") \/ Contains(skills_part, "|")
                 THEN split_items(skills_part)
                 ELSE IF Len(skills_part) > 0 /\ Len(skills_part) < MaxItemLen
                 THEN <<skills_part>> ELSE <<>>
        ELSE IF Contains(line, ",") \/ Contains(line, "|") THEN split_items(line)
        ELSE IF Contains(line, BULLET) \/ Contains(line, "-")
        THEN SelectNonEmpty(StripAll(ReSplitBullets(line)))
        ELSE IF Len(line) < MaxItemLen THEN <<line>> ELSE <<>>

RECURSIVE collect_skills(_)
collect_skills(ls) ==
    IF Len(ls) = 0 THEN <<>> ELSE skill_items(ls[1]) \o collect_skills(Tail(ls))

\* line 321
skill_clean(skill) == Strip(StripSet(StripSet(Strip(skill), {BULLET}), {"-"}))

\* lines 318-327 with `seen` holding the skills as written, not lower-cased
RECURSIVE clean_skills_cased(_, _, _)
clean_skills_cased(skills, cleaned, seen) ==
    IF Len(skills) = 0 THEN cleaned
    ELSE LET c == skill_clean(skills[1])
         IN  IF Len(c) > 1 /\ c \notin seen /\ Lower(c) \notin StopWords
             THEN clean_skills_cased(Tail(skills), Append(cleaned, c), seen \cup {c})
             ELSE clean_skills_cased(Tail(skills), cleaned, seen)

\* lines 318-327
RECURSIVE clean_skills(_, _, _)
clean_skills(skills, cleaned, seen) ==
    IF Len(skills) = 0 THEN cleaned
    ELSE LET c == skill_clean(skills[1])
             lc == Lower(c)
         IN  IF Len(c) > 1 /\ lc \notin seen /\ lc \notin StopWords
             THEN clean_skills(Tail(skills), Append(cleaned, c), seen \cup {lc})
             ELSE clean_skills(Tail(skills), cleaned, seen)

\* _extract_skills without the slice of line 329
extract_skills_uncapped(skills_text) ==
    clean_skills(collect_skills(Split(skills_text, "\n")), <<>>, {})

\* _extract_skills
extract_skills(skills_text) ==
    Take(clean_skills(collect_skills(Split(skills_text, "\n")), <<>>, {}), MaxSkills)

-----------------------------------------------------------------------------
(* Experience extractor: resume_parser.py 332-402.                         *)
(* An entry is a dict whose keys may be missing: every field is optional.  *)

MaxExperiences == 10

NoExp == [title |-> None, duration |-> None, company |-> None,
          location |-> None, description |-> None]

\* lines 340-346 with `experiences` a list shared by the calls
exp_init_shared(exp_text) ==
    [lines |-> Split(exp_text, "\n"), i |-> 1, experiences |-> exp.experiences,
     current_exp |-> [NoExp EXCEPT !.description = Some(<<>>)],
     current_bullets |-> <<>>, expecting_company |-> FALSE]

\* lines 340-346
exp_init(exp_text) ==
    [lines |-> Split(exp_text, "\n"), i |-> 1, experiences |-> <<>>,
     current_exp |-> [NoExp EXCEPT !.description = Some(<<>>)],
     current_bullets |-> <<>>, expecting_company |-> FALSE]

\* dict.get(key) as a truth value
Got(field) == field # None /\ Len(field[1]) > 0

\* lines 372 and 397 with "if current_exp" alone
exp_worth_saving_any(e) == e # NoExp

\* "if current_exp and (current_exp.get('title') or current_exp.get('company'))"
exp_worth_saving(e) ==
    /\ e # NoExp
    /\ (Got(e.title) \/ Got(e.company))

\* line 365 with the month alternative left out of the pattern
exp_date_start_year(line) ==
    LET s == Lower(line)
        hits == {i \in 1..Len(s) :
                    Year4At(s, i) /\ Slice(s, i + 4 + Run(s, i + 4, Whitespace), 1) \in Dashes}
    IN  IF hits = {} THEN 0 ELSE CHOOSE i \in hits : \A j \in hits : i <= j

\* the first position of (Mon[a-z]*\s+\d{4}|\d{4}\s*[-–—]), line 365: 0 for None
exp_date_start(line) ==
    LET s == Lower(line)
        hits == {i \in 1..Len(s) :
                    \/ MonthYearAt(s, i) > 0
                    \/ (Year4At(s, i) /\ Slice(s, i + 4 + Run(s, i + 4, Whitespace), 1) \in Dashes)}
    IN  IF hits = {} THEN 0 ELSE CHOOSE i \in hits : \A j \in hits : i <= j

\* the start of the match of \s+([A-Z][a-z]+,\s*[A-Z]{2})$ at position i
CityStateAt(s, i) ==
    LET w == Run(s, i, Whitespace)
        l == Run(s, i + w + 1, LowerCase)
        c == i + w + 1 + l
        e == c + 1 + Run(s, c + 1, Whitespace)
    IN  /\ w >= 1
        /\ Slice(s, i + w, 1) \in UpperCase
        /\ l >= 1
        /\ Slice(s, c, 1) = ","
        /\ e + 1 = Len(s)
        /\ Ch(s, e) \in UpperCase /\ Ch(s, e + 1) \in UpperCase

\* re.split(r'\s+([A-Z][a-z]+,\s*[A-Z]{2})$', line), line 387
company_parts(line) ==
    LET hits == {i \in 1..Len(line) : CityStateAt(line, i)}
        p == CHOOSE i \in hits : \A j \in hits : i <= j
    IN  IF hits = {} THEN <<line>>
        ELSE <<SubSeq(line, 1, p - 1),
               SubSeq(line, p + Run(line, p, Whitespace), Len(line)), "">>

\* lines 372-375 and 397-400 without the extend of lines 374 and 399
exp_flush_no_pending(st) ==
    IF exp_worth_saving(st.current_exp)
    THEN Append(st.experiences, st.current_exp)
    ELSE st.experiences

\* lines 372-375 and 397-400: the result list after the flush of the open entry
exp_flush(st) ==
    IF exp_worth_saving(st.current_exp)
    THEN Append(st.experiences,
                IF Len(st.current_bullets) > 0
                THEN [st.current_exp EXCEPT
                          !.description = Some(st.current_exp.description[1] \o st.current_bullets)]
                ELSE st.current_exp)
    ELSE st.experiences

\* lines 374 and 399 raise KeyError when the saved entry has no 'description'
exp_flush_raises(st) ==
    /\ exp_worth_saving(st.current_exp)
    /\ Len(st.current_bullets) > 0
    /\ st.current_exp.description = None

\* the loop body with the date-range test of line 360 before the bullet test
\* of line 354
exp_step_date_first(st, raw) ==
    LET line == Strip(raw)
        next == [st EXCEPT !.i = st.i + 1]
    IN  IF Len(line) = 0 THEN next
        ELSE IF is_date_range(line)
        THEN LET date_start == exp_date_start(line)
             IN  IF date_start = 0 THEN next
                 ELSE [next EXCEPT
                         !.experiences = exp_flush(st),
                         !.current_exp =
                             [NoExp EXCEPT
                                !.title = Some(Strip(SubSeq(line, 1, date_start - 1))),
                                !.duration = Some(Strip(SubSeq(line, date_start, Len(line)))),
                                !.description = Some(<<>>)],
                         !.current_bullets = <<>>,
                         !.expecting_company = TRUE]
        ELSE IF StartsWith(line, BULLET) \/ StartsWith(line, "-")
        THEN LET bullet == Strip(LStripSet(LStripSet(line, {BULLET}), {"-"}))
             IN  IF Len(bullet) > 0
                 THEN [next EXCEPT !.current_bullets = Append(@, bullet)]
                 ELSE next
        ELSE IF st.expecting_company
        THEN LET parts == company_parts(line)
             IN  [next EXCEPT
                    !.current_exp =
                        IF Len(parts) >= 2
                        THEN [@ EXCEPT !.company = Some(Strip(parts[1])),
                                       !.location = Some(Strip(parts[2]))]
                        ELSE [@ EXCEPT !.company = Some(line)],
                    !.expecting_company = FALSE]
        ELSE next

\* the loop body without the test of expecting_company on line 384
exp_step_any_company(st, raw) ==
    LET line == Strip(raw)
        next == [st EXCEPT !.i = st.i + 1]
    IN  IF Len(line) = 0 THEN next
        ELSE IF StartsWith(line, BULLET) \/ StartsWith(line, "-")
        THEN LET bullet == Strip(LStripSet(LStripSet(line, {BULLET}), {"-"}))
             IN  IF Len(bullet) > 0
                 THEN [next EXCEPT !.current_bullets = Append(@, bullet)]
                 ELSE next
        ELSE IF is_date_range(line)
        THEN LET date_start == exp_date_start(line)
             IN  IF date_start = 0 THEN next
                 ELSE [next EXCEPT
                         !.experiences = exp_flush(st),
                         !.current_exp =
                             [NoExp EXCEPT
                                !.title = Some(Strip(SubSeq(line, 1, date_start - 1))),
                                !.duration = Some(Strip(SubSeq(line, date_start, Len(line)))),
                                !.description = Some(<<>>)],
                         !.current_bullets = <<>>,
                         !.expecting_company = TRUE]
        ELSE LET parts == company_parts(line)
             IN  [next EXCEPT
                    !.current_exp =
                        IF Len(parts) >= 2
                        THEN [@ EXCEPT !.company = Some(Strip(parts[1])),
                                       !.location = Some(Strip(parts[2]))]
                        ELSE [@ EXCEPT !.company = Some(line)],
                    !.expecting_company = FALSE]

\* one iteration of the loop of lines 348-394
exp_step(st, raw) ==
    LET line == Strip(raw)
        next == [st EXCEPT !.i = st.i + 1]
    IN  IF Len(line) = 0 THEN next
        ELSE IF StartsWith(line, BULLET) \/ StartsWith(line, "-")
        THEN LET bullet == Strip(LStripSet(LStripSet(line, {BULLET}), {"-"}))
             IN  IF Len(bullet) > 0
                 THEN [next EXCEPT !.current_bullets = Append(@, bullet)]
                 ELSE next
        ELSE IF is_date_range(line)
        THEN LET date_start == exp_date_start(line)
             IN  IF date_start = 0 THEN next
                 ELSE [next EXCEPT
                         !.experiences = exp_flush(st),
                         !.current_exp =
                             [NoExp EXCEPT
                                !.title = Some(Strip(SubSeq(line, 1, date_start - 1))),
                                !.duration = Some(Strip(SubSeq(line, date_start, Len(line)))),
                                !.description = Some(<<>>)],
                         !.current_bullets = <<>>,
                         !.expecting_company = TRUE]
        ELSE IF st.expecting_company
        THEN LET parts == company_parts(line)
             IN  [next EXCEPT
                    !.current_exp =
                        IF Len(parts) >= 2
                        THEN [@ EXCEPT !.company = Some(Strip(parts[1])),
                                       !.location = Some(Strip(parts[2]))]
                        ELSE [@ EXCEPT !.company = Some(line)],
                    !.expecting_company = FALSE]
        ELSE next

exp_step_raises(st, raw) ==
    LET line == Strip(raw)
    IN  /\ Len(line) > 0
        /\ ~(StartsWith(line, BULLET) \/ StartsWith(line, "-"))
        /\ is_date_range(line)
        /\ exp_date_start(line) > 0
        /\ exp_flush_raises(st)

\* lines 396-402
exp_result(st) == Take(exp_flush(st), MaxExperiences)

-----------------------------------------------------------------------------
(* Education extractor: resume_parser.py 405-469.                          *)

MaxEducation == 5
MinDegreeLen == 10

InstitutionWords == <<"university", "college", "school", "institute">>

NoEdu == [school |-> None, duration |-> None, degree |-> None,
          gpa |-> None, location |-> None]

\* lines 412-415
edu_init(edu_text) ==
    [lines |-> Split(edu_text, "\n"), i |-> 1, education |-> <<>>, current_edu |-> NoEdu]

\* "if current_edu and current_edu.get('school')"
edu_worth_saving(e) == e # NoEdu /\ Got(e.school)

\* the first position of
\* (Mon[a-z]*\s+\d{4}\s*[-–—]\s*(May|Present|Current|\d{4})), line 434: 0 for None
edu_date_start(line) ==
    LET s == Lower(line)
        hits == {i \in 1..Len(s) :
                    LET m == MonthYearAt(s, i)
                        e == i + m + DashAt(s, i + m)
                    IN  /\ m > 0
                        /\ DashAt(s, i + m) > 0
                        /\ \/ Slice(s, e, 3) = "may"
                           \/ Slice(s, e, 7) \in {"present", "current"}
                           \/ Year4At(s, e)}
    IN  IF hits = {} THEN 0 ELSE CHOOSE i \in hits : \A j \in hits : i <= j

\* \(GPA:\s*([\d.]+/[\d.]+)\) at position i, line 443: <<start of group 1,
\* end of group 1>>, <<>> for no match
GpaAt(s, i) ==
    LET ratio == Digits \cup {"."}
        g == i + 5 + Run(s, i + 5, Whitespace)
        a == Run(s, g, ratio)
        b == Run(s, g + a + 1, ratio)
    IN  IF /\ Slice(s, i, 5) = "(gpa:"
           /\ a >= 1
           /\ Slice(s, g + a, 1) = "/"
           /\ b >= 1
           /\ Slice(s, g + a + 1 + b, 1) = ")"
        THEN <<g, g + a + b>>
        ELSE <<>>

\* re.search of line 443: <<match start, group start, group end>>, <<>> for None
gpa_search(line) ==
    LET s == Lower(line)
        hits == {i \in 1..Len(s) : GpaAt(s, i) # <<>>}
        p == CHOOSE i \in hits : \A j \in hits : i <= j
    IN  IF hits = {} THEN <<>> ELSE <<p>> \o GpaAt(s, p)

\* lines 444-460 without the rstrip(',') of line 451
edu_gpa_line_comma(cur, line) ==
    LET m == gpa_search(line)
    IN  IF m = <<>> THEN cur
        ELSE LET degree_part == Strip(SubSeq(line, 1, m[1] - 1))
                 after == Strip(SubSeq(line, m[3] + 2, Len(line)))
                 location_part == Strip(LStripSet(after, {"(", ")"} \cup Whitespace))
                 withgpa == [cur EXCEPT !.gpa = Some(SubSeq(line, m[2], m[3])),
                                        !.degree = Some(degree_part)]
             IN  IF Len(location_part) > 0
                 THEN [withgpa EXCEPT !.location = Some(location_part)]
                 ELSE withgpa

\* lines 444-460
edu_gpa_line(cur, line) ==
    LET m == gpa_search(line)
    IN  IF m = <<>> THEN cur
        ELSE LET degree_part == Strip(RStripSet(Strip(SubSeq(line, 1, m[1] - 1)), {","}))
                 after == Strip(SubSeq(line, m[3] + 2, Len(line)))
                 location_part == Strip(LStripSet(after, {"(", ")"} \cup Whitespace))
                 withgpa == [cur EXCEPT !.gpa = Some(SubSeq(line, m[2], m[3])),
                                        !.degree = Some(degree_part)]
             IN  IF Len(location_part) > 0
                 THEN [withgpa EXCEPT !.location = Some(location_part)]
                 ELSE withgpa

\* one iteration of the loop of lines 417-463
edu_step(st, raw) ==
    LET line == Strip(raw)
        next == [st EXCEPT !.i = st.i + 1]
    IN  IF Len(line) = 0 THEN next
        ELSE IF StartsWith(line, BULLET) \/ StartsWith(line, "-") THEN next
        ELSE IF \E k \in 1..Len(InstitutionWords) : Contains(Lower(line), InstitutionWords[k])
        THEN LET saved == edu_worth_saving(st.current_edu)
                 base == IF saved THEN NoEdu ELSE st.current_edu
                 date_start == edu_date_start(line)
             IN  [next EXCEPT
                    !.education = IF saved THEN Append(@, st.current_edu) ELSE @,
                    !.current_edu =
                        IF date_start > 0
                        THEN [base EXCEPT
                                !.school = Some(Strip(SubSeq(line, 1, date_start - 1))),
                                !.duration = Some(Strip(SubSeq(line, date_start, Len(line))))]
                        ELSE [base EXCEPT !.school = Some(line)]]
        ELSE IF Contains(Lower(line), "gpa")
        THEN [next EXCEPT !.current_edu = edu_gpa_line(@, line)]
        ELSE IF ~Got(st.current_edu.degree) /\ Len(line) > MinDegreeLen
        THEN [next EXCEPT !.current_edu = [@ EXCEPT !.degree = Some(line)]]
        ELSE next

\* lines 465-469 without the slice
edu_result_uncapped(st) ==
    IF edu_worth_saving(st.current_edu)
    THEN Append(st.education, st.current_edu) ELSE st.education

\* lines 465-469
edu_result(st) ==
    Take(IF edu_worth_saving(st.current_edu)
         THEN Append(st.education, st.current_edu) ELSE st.education,
         MaxEducation)

-----------------------------------------------------------------------------
(* Summary extractor: resume_parser.py 472-483.                            *)

MaxSummary == 500

RECURSIVE summary_lines(_)
summary_lines(ls) ==
    IF Len(ls) = 0 THEN <<>>
    ELSE (IF Len(Strip(ls[1])) > 0 /\ ~StartsWith(Strip(ls[1]), BULLET)
          THEN <<Strip(ls[1])>> ELSE <<>>) \o summary_lines(Tail(ls))

\* _extract_summary with >= in place of > on line 480
extract_summary_early(summary_text) ==
    LET summary == Join(summary_lines(Split(summary_text, "\n")), " ")
    IN  IF Len(summary) >= MaxSummary
        THEN SubSeq(summary, 1, MaxSummary) \o "..."
        ELSE summary

\* _extract_summary
extract_summary(summary_text) ==
    LET summary == Join(summary_lines(Split(summary_text, "\n")), " ")
    IN  IF Len(summary) > MaxSummary
        THEN SubSeq(summary, 1, MaxSummary) \o "..."
        ELSE summary

-----------------------------------------------------------------------------
(* Contact fields: resume_parser.py 97-118.                                *)

NameScanLines == 5
MinNameWords == 2
MaxNameWords == 4

\* line 116: all(w[0].isupper() if w else False for w in words)
all_capitalized(words) ==
    \A k \in 1..Len(words) : Len(words[k]) > 0 /\ Ch(words[k], 1) \in UpperCase

\* lines 112-116 for one line
is_name_line(raw) ==
    LET line == Strip(raw)
        words == Words(line)
    IN  /\ Len(line) > 0
        /\ ~is_email(line) /\ ~is_url(line) /\ ~is_date_range(line)
        /\ MinNameWords <= Len(words) /\ Len(words) <= MaxNameWords
        /\ all_capitalized(words)

\* lines 111-118: the index in lines[:5] the loop breaks on, 0 when it runs out
name_index(ls) ==
    LET scanned == 1..(IF Len(ls) < NameScanLines THEN Len(ls) ELSE NameScanLines)
        hits == {i \in scanned : is_name_line(ls[i])}
    IN  IF hits = {} THEN 0 ELSE CHOOSE i \in hits : \A j \in hits : i <= j

extract_name(ls) ==
    IF name_index(ls) = 0 THEN None ELSE Some(Strip(ls[name_index(ls)]))

\* the loop of lines 111-118 raises when _is_email does, on a line it reaches
name_raises(ls) ==
    LET last == IF name_index(ls) = 0
                THEN (IF Len(ls) < NameScanLines THEN Len(ls) ELSE NameScanLines)
                ELSE name_index(ls)
    IN  \E i \in 1..last : Len(Strip(ls[i])) > 0 /\ is_email_raises(Strip(ls[i]))

\* \w of the regex syntax, for \b
WordChars == Letters \cup Digits \cup {"_"}

\* \b between positions i - 1 and i
BoundaryAt(s, i) ==
    (Slice(s, i - 1, 1) \in WordChars) # (Slice(s, i, 1) \in WordChars)

\* the greatest element of a non-empty set of numbers, 0 for the empty set
Greatest(S) == IF S = {} THEN 0 ELSE CHOOSE x \in S : \A y \in S : y <= x
Least(S) == IF S = {} THEN 0 ELSE CHOOSE x \in S : \A y \in S : x <= y

\* \b[A-Za-z0-9._%+-]+@[A-Za-z0-9.-]+\.[A-Z|a-z]{2,}\b at position i (line 121):
\* the last position matched, 0 for no match.  The local part and the domain
\* are greedy; the domain gives back to the last '.' that a top-level domain
\* of two or more characters ending on a word boundary follows.
EmailAt(s, i) ==
    LET l == Run(s, i, Letters \cup Digits \cup {".", "_", "%", "+", "-"})
        d0 == i + l + 1
        d == Run(s, d0, Letters \cup Digits \cup {".", "-"})
        tld(q) == {t \in 2..Run(s, q + 1, Letters \cup {"|"}) : BoundaryAt(s, q + t + 1)}
        dots == {q \in (d0 + 1)..(d0 + d - 1) : Ch(s, q) = "." /\ tld(q) # {}}
    IN  IF BoundaryAt(s, i) /\ l >= 1 /\ Slice(s, i + l, 1) = "@" /\ dots # {}
        THEN Greatest(dots) + Greatest(tld(Greatest(dots)))
        ELSE 0

\* re.search(email_pattern, resume_text), lines 121-124
extract_email(text) ==
    LET p == Least({i \in 1..Len(text) : EmailAt(text, i) > 0})
    IN  IF p = 0 THEN None ELSE Some(SubSeq(text, p, EmailAt(text, p)))

\* prefix followed by [a-zA-Z0-9-]+, lines 128-137
extract_handle(text, prefix) ==
    LET handle == Letters \cup Digits \cup {"-"}
        n == Len(prefix)
        p == Least({i \in 1..Len(text) :
                       Slice(text, i, n) = prefix /\ Run(text, i + n, handle) >= 1})
    IN  IF p = 0 THEN None
        ELSE Some(SubSeq(text, p, p + n + Run(text, p + n, handle) - 1))

PhoneSeps == {"-", "."} \cup Whitespace

\* an optional character of cs at position i: how many characters it takes
Opt(s, i, cs) == IF Slice(s, i, 1) \in cs THEN 1 ELSE 0

DigitsAt(s, i, n) == i >= 1 /\ i + n - 1 <= Len(s) /\ \A j \in i..(i + n - 1) : Ch(s, j) \in Digits

\* \(?\d{3}\)?[-.\s]?\d{3}[-.\s]?\d{4} at position i (line 141): the length
\* matched, 0 for no match
NationalAt(s, i) ==
    LET a == i + Opt(s, i, {"("})
        b == a + 3 + Opt(s, a + 3, {")"})
        c == b + Opt(s, b, PhoneSeps)
        e == c + 3 + Opt(s, c + 3, PhoneSeps)
    IN  IF DigitsAt(s, a, 3) /\ DigitsAt(s, c, 3) /\ DigitsAt(s, e, 4)
        THEN e + 4 - i ELSE 0

\* \+\d{1,3}[-.\s]?\(?\d{3}\)?[-.\s]?\d{3}[-.\s]?\d{4} at position i (line 142)
InternationalAt(s, i) ==
    LET tail(k) == LET a == i + 1 + k + Opt(s, i + 1 + k, PhoneSeps)
                   IN  IF NationalAt(s, a) > 0 THEN a + NationalAt(s, a) - i ELSE 0
        ks == {k \in 1..3 : DigitsAt(s, i + 1, k) /\ tail(k) > 0}
    IN  IF Slice(s, i, 1) = "+" /\ ks # {} THEN tail(Greatest(ks)) ELSE 0

\* lines 140-148 with the two patterns of phone_patterns in the other order
extract_phone_international_first(text) ==
    LET n == Least({i \in 1..Len(text) : NationalAt(text, i) > 0})
        m == Least({i \in 1..Len(text) : InternationalAt(text, i) > 0})
    IN  IF m > 0 THEN Some(Strip(SubSeq(text, m, m + InternationalAt(text, m) - 1)))
        ELSE IF n > 0 THEN Some(Strip(SubSeq(text, n, n + NationalAt(text, n) - 1)))
        ELSE None

\* lines 140-148: the first pattern that matches anywhere wins
extract_phone(text) ==
    LET n == Least({i \in 1..Len(text) : NationalAt(text, i) > 0})
        m == Least({i \in 1..Len(text) : InternationalAt(text, i) > 0})
    IN  IF n > 0 THEN Some(Strip(SubSeq(text, n, n + NationalAt(text, n) - 1)))
        ELSE IF m > 0 THEN Some(Strip(SubSeq(text, m, m + InternationalAt(text, m) - 1)))
        ELSE None

\* lines 98-108
EmptyProfile ==
    [name |-> None, email |-> None, phone |-> None, linkedin |-> None,
     github |-> None, skills |-> <<>>, experience |-> <<>>, education |-> <<>>,
     summary |-> None]

-----------------------------------------------------------------------------
(* The decoder, resume_parser.py 8-33, and the upload handler,             *)
(* resume_route.py 12-67.                                                  *)

PDF_MIME_TYPE == "application/pdf"

EndsWith(s, suffix) ==
    Len(suffix) <= Len(s) /\ SubSeq(s, Len(s) - Len(suffix) + 1, Len(s)) = suffix

NotAResume == "File uploaded does not appear to be a resume. Please upload a valid resume PDF."
NoText == "No readable text found in the PDF."
Unreadable == "Unable to read PDF. Please upload a valid document."
EmptyPdf == "Uploaded PDF is empty."

\* extract_resume_text with the test of lines 30-31 left out
extract_resume_text_unchecked(f) ==
    IF f.size = 0 THEN [error |-> EmptyPdf, text |-> ""]
    ELSE IF ~f.readable THEN [error |-> Unreadable, text |-> ""]
    ELSE [error |-> "", text |-> Strip(Join(SelectNonEmpty(StripAll(f.pages)), "\n\n"))]

\* extract_resume_text: error is the message of the RuntimeError raised, "" when
\* the text is returned
extract_resume_text(f) ==
    IF f.size = 0 THEN [error |-> EmptyPdf, text |-> ""]
    ELSE IF ~f.readable THEN [error |-> Unreadable, text |-> ""]
    ELSE LET extracted_text == Strip(Join(SelectNonEmpty(StripAll(f.pages)), "\n\n"))
         IN  IF Len(extracted_text) = 0
             THEN [error |-> NoText, text |-> ""]
             ELSE [error |-> "", text |-> extracted_text]

\* the except clauses with the generic one first
response_status_generic_first(exc, code) == 500

\* lines 58-67: the status of the response for an exception raised in the try
\* block; code is the status_code of an HTTPException
response_status(exc, code) ==
    IF exc = "HTTPException" THEN code ELSE 500

\* lines 58-67: the detail of the response
response_detail(exc, message) ==
    IF exc \in {"HTTPException", "RuntimeError"} THEN message
    ELSE "Error processing resume: " \o message

-----------------------------------------------------------------------------
(* Inputs.                                                                 *)

MaxBlocks == 2     \* blocks (pages of an upload, paragraphs of a text) per input
MaxCalls == 2      \* calls made on one input
MaxOver == 1       \* how far past its cap a generated section goes

BlockPool ==
    { "Jane Doe\njane@x.com | (123) 456-7890",
      "Skills\nPython, Go",
      "Technical Skills\nRust | C",
      "Skills: Java, SQL\nLanguages: python, Java",
      "Work Experience\nSoftware Engineer Intern Jan 2023 - Present\nAcme Corp Austin, TX\n* Built X",
      "Experience\nDev 2019 - 2020\nBeta Inc\n* Gained experience in Go",
      "Education\nState University Sep 2019 - May 2023\nBachelor of Science (GPA: 3.8/4.0) Boston, MA",
      "Summary\nBackend developer\nKnows about Go and Kafka" }

BlockSeqs == UNION {[1..n -> BlockPool] : n \in 0..MaxBlocks}

DigitStr == <<"0", "1", "2", "3", "4", "5", "6", "7", "8", "9">>

RECURSIVE Numeral(_)
Numeral(k) ==
    IF k < 10 THEN DigitStr[k + 1] ELSE Numeral(k \div 10) \o DigitStr[(k % 10) + 1]

\* n generated lines, made by line(k), joined by sep
RECURSIVE Generated(_, _, _)
Generated(line(_), n, sep) ==
    IF n <= 0 THEN ""
    ELSE IF n = 1 THEN line(1)
    ELSE Generated(line, n - 1, sep) \o sep \o line(n)

SkillItem(k) == "s" \o Numeral(k)
ExpEntry(k) == "Role" \o Numeral(k) \o " Jan 2020 - Present\n* task " \o Numeral(k)
EduEntry(k) == "College " \o Numeral(k)

\* a text whose sections hold d more candidates than their caps
BigText(d) ==
    "Skills\n" \o Generated(SkillItem, MaxSkills + d, ", ")
    \o "\nExperience\n" \o Generated(ExpEntry, MaxExperiences + d, "\n")
    \o "\nEducation\n" \o Generated(EduEntry, MaxEducation + d, "\n")

BigTexts == {BigText(d) : d \in (0 - 1)..MaxOver}

RECURSIVE Fill(_)
Fill(n) == IF n <= 0 THEN "" ELSE "z" \o Fill(n - 1)

ClassifierBases ==
    { "Education and Skills ", "EDUCATION experience ", "University college Degree ",
      "Education university degree ", "skills intern gpa ", "nothing here ",
      "Education Experience Skills " }

\* texts of MinResumeLen - 1, MinResumeLen and MinResumeLen + 1 characters, bare
\* and wrapped in whitespace
ClassifierTexts ==
    UNION {{b \o Fill(n - Len(b)), "  " \o b \o Fill(n - Len(b)) \o "\n "} :
               <<b, n>> \in ClassifierBases \X ((MinResumeLen - 1)..(MinResumeLen + 1))}

\* blank pages and blank texts
Blank == "  \n\t "

\* the pages of an uploaded file
PageSeqs ==
    BlockSeqs \cup {<<t>> : t \in ClassifierTexts} \cup {<<Blank>>, <<Blank, "">>}

BlockTexts == {Join(b, "\n") : b \in BlockSeqs}

\* the texts is_resume is called on
ClassifyTexts == BlockTexts \cup ClassifierTexts \cup {Blank}

\* texts whose name line stands at different places among the leading lines
NameTexts ==
    { "CV\n\n\n\n\nJane Doe\nPython developer",
      "\n\nJane Doe",
      "a@b.co\nwww.x.io\n2019 - 2020\nlower case\nJane Doe\nJohn Roe",
      "a@b.co\nwww.x.io\n2019 - 2020\nlower case\nOne\nJohn Roe",
      "One Two Three Four Five\njane doe\nJane Q. Doe",
      "Jane Doe\nTel: +1 (123) 456-7890", "+44 123.456.7890 home\n555-123-4567",
      "Cell +1123 456 7890", "Fax +1234-5678 and 12-345-6789" }

\* skills sections with case variants, stop words and bullet-prefixed lines
SkillTexts ==
    { "Skills\nLanguages: Python, python, PYTHON, Go",
      "Skills\nGo, and, C, The, go, GO | x\nTools: Git",
      "Skills\n* Python, Go\nRust | C",
      "Skills\n*\n- Docker\nGit - Bash * Vim" }

\* experience sections: one entry, and entries with bullets at every place
ExpTexts ==
    { "Experience\nData Analyst 2019 - 2021\nGlobex Llc Denver, CO\n- Made Y\n* Ran Z",
      "Experience\n  Lead Dev   March 2020 ~ Current \n\nInitech  Reno,NV\n*  Did A\n*\n-B",
      "Experience\n* stray\nDev 2019 - 2020\n* early\nBeta Inc\n* mid\nnote line\n* late\nOps Jan 2021 - Present\nGamma Co Austin, TX\n* last",
      "Experience\n2018 - 2019\n* solo\nQA Jun 2020\n2021 ^ 2022\nDelta Gmbh\n* end",
      "Experience\n* Jan 2020 - Present shipped X\nAcme Corp\n- 2019 - 2020 intern",
      "Experience\nDev 2019 - 2020\n* Ops May 2019 - Jun 2019\nBeta Inc Austin, TX" }

\* education sections: institution lines with and without a date range, and
\* lines with a GPA marker
EduTexts ==
    { "Education\nState University 2019 - 2023\nBachelor of Arts in History",
      "Education\nTech Institute Sep 2020 - Apr 2024\nB.S. Computing, (GPA: 3.8/4.0), Boston, MA",
      "Education\nCity College Sep 2019 - Present\nDiploma in Design (gpa: 3.5/4) (Hamilton, ON)\nHigh School Jan 2015 - May 2019\nHonours,, (GPA: 4.0/4.0)",
      "Education\nOpen University\nMaster of Laws in Tax\nUniversity Medal (GPA: 3.9/4.0) Leeds, UK\nLL.M. (GPA:3.9/4.0)  Leeds, UK\nGPA 3.7 overall",
      "Education\nSep 2019 - May 2023 State University\nBachelor of Arts in History\nCity College Sep 2015 - May 2019",
      "Education\nBachelor of Science in Physics\nHonours (GPA: 3.6/4.0) Austin, TX\n* Dean's list\nState University Sep 2019 - May 2023\nTech Institute\nDiploma in Welding" }

\* n characters of words of 9 letters with a space between them
Prose(n) ==
    LET F[k \in 0..n] == IF k = 0 THEN ""
                         ELSE IF k % 2 = 0 THEN F[k \div 2] \o F[k \div 2]
                         ELSE F[k - 1] \o "abcdefghi "
    IN  SubSeq(F[(n \div 10) + 1], 1, n)

\* a summary section of two lines, a bullet line and a blank line that join
\* into MaxSummary + d characters
LongSummary(d) ==
    "Summary\n" \o Prose(244) \o "\n* left out\n\n  "
    \o Prose(MaxSummary - 245 + d) \o " "

SummaryTexts == {LongSummary(d) : d \in (0 - 1)..MaxOver}

\* the texts extract_structured_data is called on
FormatTexts ==
    BlockTexts \cup BigTexts \cup NameTexts \cup SkillTexts \cup ExpTexts \cup EduTexts
    \cup SummaryTexts \cup {Blank}

GoodFile(pages) ==
    [filename |-> "cv.PDF", content_type |-> PDF_MIME_TYPE, size |-> 1,
     readable |-> TRUE, pages |-> pages]

Files ==
    {GoodFile(p) : p \in PageSeqs}
    \cup { [GoodFile(<<>>) EXCEPT !.filename = ""],
           [GoodFile(<<>>) EXCEPT !.filename = "cv.pdf.txt"],
           [GoodFile(<<>>) EXCEPT !.content_type = "text/plain"],
           [GoodFile(<<>>) EXCEPT !.size = 0],
           [GoodFile(<<>>) EXCEPT !.readable = FALSE] }

-----------------------------------------------------------------------------
(* The state machine: one call at a time, a step per statement group.      *)

NoFed == [skills |-> None, experience |-> None, education |-> None, summary |-> None]

\* no call runs beside the one in progress
NoCall ==
    [pc |-> "none", entry |-> "", resume_text |-> "", status |-> 0, detail |-> "",
     raised |-> "", invoked |-> <<>>, accepted |-> None, lines |-> <<>>, idx |-> 1,
     sections |-> <<>>, current_section |-> None, current_content |-> <<>>,
     exp |-> [lines |-> <<>>, i |-> 1, experiences |-> <<>>,
              current_exp |-> [NoExp EXCEPT !.description = Some(<<>>)],
              current_bullets |-> <<>>, expecting_company |-> FALSE],
     edu |-> [edu_init("") EXCEPT !.lines = <<>>],
     formatted |-> EmptyProfile, fed |-> NoFed]

Init ==
    /\ pc = "idle"
    /\ entry = ""
    /\ file = GoodFile(<<>>)
    /\ resume_text = ""
    /\ status = 0
    /\ detail = ""
    /\ raised = ""
    /\ invoked = <<>>
    /\ accepted = None
    /\ lines = <<>>
    /\ idx = 1
    /\ sections = <<>>
    /\ current_section = None
    /\ current_content = <<>>
    /\ exp = [lines |-> <<>>, i |-> 1, experiences |-> <<>>,
              current_exp |-> [NoExp EXCEPT !.description = Some(<<>>)],
              current_bullets |-> <<>>, expecting_company |-> FALSE]
    /\ edu = [edu_init("") EXCEPT !.lines = <<>>]
    /\ formatted = EmptyProfile
    /\ fed = NoFed
    /\ ncall = 0
    /\ earlier = <<>>
    /\ parked = NoCall
    /\ find_result = None

locals == <<lines, idx, sections, current_section, current_content, exp, edu>>
input == <<entry, file, ncall, earlier, parked, find_result>>
response == <<status, detail, raised>>

\* a client posts a file to /resume/upload
Upload ==
    /\ pc = "idle"
    /\ entry' = "upload"
    /\ \E f \in Files : file' = f
    /\ ncall' = 1
    /\ pc' = "receive"
    /\ UNCHANGED <<resume_text, response, invoked, accepted, locals, formatted, fed, earlier, parked, find_result>>

\* a caller calls is_resume on a text
CallIsResume ==
    /\ pc = "idle"
    /\ entry' = "is_resume"
    /\ \E t \in ClassifyTexts : resume_text' = t
    /\ ncall' = 1
    /\ pc' = "classify"
    /\ UNCHANGED <<file, response, invoked, accepted, locals, formatted, fed, earlier, parked, find_result>>

\* a caller calls extract_structured_data on a text, resume_parser.py 486-490
CallFormat ==
    /\ pc = "idle"
    /\ entry' = "format_resume"
    /\ \E t \in FormatTexts : resume_text' = t
    /\ ncall' = 1
    /\ pc' = "format"
    /\ UNCHANGED <<file, response, invoked, accepted, locals, formatted, fed, earlier, parked, find_result>>

\* resume_route.py 23-31
Receive ==
    /\ pc = "receive"
    /\ IF Len(file.filename) = 0 \/ ~EndsWith(Lower(file.filename), ".pdf")
       THEN /\ status' = 400
            /\ detail' = "Only PDF files are allowed (invalid extension)."
            /\ pc' = "done"
       ELSE IF file.content_type # PDF_MIME_TYPE
       THEN /\ status' = 400
            /\ detail' = "Invalid Content-Type. Expected application/pdf."
            /\ pc' = "done"
       ELSE IF file.size = 0
       THEN /\ status' = 400
            /\ detail' = EmptyPdf
            /\ pc' = "done"
       ELSE /\ pc' = "decode"
            /\ UNCHANGED <<status, detail>>
    /\ UNCHANGED <<input, resume_text, raised, invoked, accepted, locals, formatted, fed>>

\* resume_route.py 35-36
Decode ==
    /\ pc = "decode"
    /\ LET text_result == extract_resume_text(file)
       IN  IF text_result.error # ""
           THEN /\ raised' = "RuntimeError"
                /\ detail' = text_result.error
                /\ pc' = "except"
                /\ UNCHANGED resume_text
           ELSE /\ resume_text' = text_result.text
                /\ pc' = "classify"
                /\ UNCHANGED <<raised, detail>>
    /\ UNCHANGED <<input, status, invoked, accepted, locals, formatted, fed>>

\* resume_route.py 39-43, and a direct call of is_resume
Classify ==
    /\ pc = "classify"
    /\ invoked' = Append(invoked, "is_resume")
    /\ \E answer \in {is_resume(resume_text)} :
           /\ accepted' = Some(answer)
           /\ IF entry = "is_resume"
              THEN /\ pc' = "done"
                   /\ UNCHANGED <<status, detail, raised>>
              ELSE IF ~answer
              THEN /\ raised' = "HTTPException"
                   /\ status' = 400
                   /\ detail' = NotAResume
                   /\ pc' = "except"
              ELSE /\ pc' = "format"
                   /\ UNCHANGED <<status, detail, raised>>
    /\ UNCHANGED <<input, resume_text, locals, formatted, fed>>

\* resume_route.py 58-67; an exception of a direct call goes to the caller
Except ==
    /\ pc = "except"
    /\ IF entry = "upload"
       THEN /\ status' = response_status(raised, status)
            /\ detail' = response_detail(raised, detail)
       ELSE UNCHANGED <<status, detail>>
    /\ pc' = "done"
    /\ UNCHANGED <<input, resume_text, raised, invoked, accepted, locals, formatted, fed>>

\* format_resume, lines 97-151, up to the first line of _parse_sections' loop
\* (lines 198-202)
FormatBegin ==
    /\ pc = "format"
    /\ invoked' = Append(invoked, "format_resume")
    /\ fed' = NoFed
    /\ idx' = 1
    /\ sections' = <<>>
    /\ current_section' = None
    /\ current_content' = <<>>
    /\ \E split \in {Split(resume_text, "\n")} :
           /\ lines' = split
           /\ IF name_raises(split)
              THEN /\ raised' = "IndexError"
                   /\ detail' = "list index out of range"
                   /\ formatted' = EmptyProfile
                   /\ pc' = "except"
              ELSE /\ formatted' =
                         [EmptyProfile EXCEPT
                            !.name = extract_name(split),
                            !.email = extract_email(resume_text),
                            !.linkedin = extract_handle(resume_text, "linkedin.com/in/"),
                            !.github = extract_handle(resume_text, "github.com/"),
                            !.phone = extract_phone(resume_text)]
                   /\ pc' = "segment"
                   /\ UNCHANGED <<raised, detail>>
    /\ UNCHANGED <<input, resume_text, status, accepted, exp, edu>>

\* _parse_sections: one iteration of the loop of lines 214-245
SegmentLine ==
    /\ pc = "segment"
    /\ idx <= Len(lines)
    /\ \E r \in {seg_step(sections, current_section, current_content, lines[idx])} :
           /\ sections' = r.sections
           /\ current_section' = r.current_section
           /\ current_content' = r.current_content
    /\ idx' = idx + 1
    /\ UNCHANGED <<input, resume_text, response, invoked, accepted, lines, exp, edu,
                   formatted, fed, pc>>

\* _parse_sections: lines 247-251
SegmentEnd ==
    /\ pc = "segment"
    /\ idx > Len(lines)
    /\ sections' = flush_section(sections, current_section, current_content)
    /\ pc' = "skills"
    /\ UNCHANGED <<input, resume_text, response, invoked, accepted, lines, idx,
                   current_section, current_content, exp, edu, formatted, fed>>

\* a sub-extractor is handed the list stored under 'header': it calls .split on it
NotAString == "'list' object has no attribute 'split'"

\* format_resume: lines 154-156
ExtractSkills ==
    /\ pc = "skills"
    /\ LET skills_section == find_section(sections, skills_pref)
       IN  IF ~Truthy(skills_section)
           THEN /\ pc' = "experience"
                /\ UNCHANGED <<formatted, fed, raised, detail>>
           ELSE IF skills_section[1].islist
           THEN /\ raised' = "AttributeError"
                /\ detail' = NotAString
                /\ pc' = "except"
                /\ UNCHANGED <<formatted, fed>>
           ELSE /\ fed' = [fed EXCEPT !.skills = Some(skills_section[1].text)]
                /\ formatted' = [formatted EXCEPT !.skills = extract_skills(skills_section[1].text)]
                /\ pc' = "experience"
                /\ UNCHANGED <<raised, detail>>
    /\ UNCHANGED <<input, resume_text, status, invoked, accepted, locals>>

\* format_resume: lines 159-161, and _extract_experience: lines 340-346
ExperienceBegin ==
    /\ pc = "experience"
    /\ LET exp_section == find_section(sections, experience_pref)
       IN  IF ~Truthy(exp_section)
           THEN /\ pc' = "education"
                /\ UNCHANGED <<exp, fed, raised, detail>>
           ELSE IF exp_section[1].islist
           THEN /\ raised' = "AttributeError"
                /\ detail' = NotAString
                /\ pc' = "except"
                /\ UNCHANGED <<exp, fed>>
           ELSE /\ fed' = [fed EXCEPT !.experience = Some(exp_section[1].text)]
                /\ exp' = exp_init(exp_section[1].text)
                /\ pc' = "exp_loop"
                /\ UNCHANGED <<raised, detail>>
    /\ UNCHANGED <<input, resume_text, status, invoked, accepted, lines, idx, sections,
                   current_section, current_content, edu, formatted>>

\* _extract_experience: one iteration of the loop of lines 348-394
ExperienceLine ==
    /\ pc = "exp_loop"
    /\ exp.i <= Len(exp.lines)
    /\ IF exp_step_raises(exp, exp.lines[exp.i])
       THEN /\ raised' = "KeyError"
            /\ detail' = "'description'"
            /\ pc' = "except"
            /\ UNCHANGED exp
       ELSE /\ exp' = exp_step(exp, exp.lines[exp.i])
            /\ UNCHANGED <<raised, detail, pc>>
    /\ UNCHANGED <<input, resume_text, status, invoked, accepted, lines, idx, sections,
                   current_section, current_content, edu, formatted, fed>>

\* _extract_experience: lines 396-402, and the assignment of line 161
ExperienceEnd ==
    /\ pc = "exp_loop"
    /\ exp.i > Len(exp.lines)
    /\ IF exp_flush_raises(exp)
       THEN /\ raised' = "KeyError"
            /\ detail' = "'description'"
            /\ pc' = "except"
            /\ UNCHANGED <<exp, formatted>>
       ELSE /\ exp' = [exp EXCEPT !.experiences = exp_flush(exp)]
            /\ formatted' = [formatted EXCEPT !.experience = exp_result(exp)]
            /\ pc' = "education"
            /\ UNCHANGED <<raised, detail>>
    /\ UNCHANGED <<input, resume_text, status, invoked, accepted, lines, idx, sections,
                   current_section, current_content, edu, fed>>

\* format_resume: lines 164-166, and _extract_education: lines 412-415
EducationBegin ==
    /\ pc = "education"
    /\ LET edu_section == find_section(sections, education_pref)
       IN  IF ~Truthy(edu_section)
           THEN /\ pc' = "summary"
                /\ UNCHANGED <<edu, fed, raised, detail>>
           ELSE IF edu_section[1].islist
           THEN /\ raised' = "AttributeError"
                /\ detail' = NotAString
                /\ pc' = "except"
                /\ UNCHANGED <<edu, fed>>
           ELSE /\ fed' = [fed EXCEPT !.education = Some(edu_section[1].text)]
                /\ edu' = edu_init(edu_section[1].text)
                /\ pc' = "edu_loop"
                /\ UNCHANGED <<raised, detail>>
    /\ UNCHANGED <<input, resume_text, status, invoked, accepted, lines, idx, sections,
                   current_section, current_content, exp, formatted>>

\* _extract_education: one iteration of the loop of lines 417-463
EducationLine ==
    /\ pc = "edu_loop"
    /\ edu.i <= Len(edu.lines)
    /\ edu' = edu_step(edu, edu.lines[edu.i])
    /\ UNCHANGED <<input, resume_text, response, invoked, accepted, lines, idx, sections,
                   current_section, current_content, exp, formatted, fed, pc>>

\* _extract_education: lines 465-469, and the assignment of line 166
EducationEnd ==
    /\ pc = "edu_loop"
    /\ edu.i > Len(edu.lines)
    /\ edu' = [edu EXCEPT !.education = edu_result_uncapped(edu)]
    /\ formatted' = [formatted EXCEPT !.education = edu_result(edu)]
    /\ pc' = "summary"
    /\ UNCHANGED <<input, resume_text, response, invoked, accepted, lines, idx, sections,
                   current_section, current_content, exp, fed>>

\* format_resume: lines 169-171
ExtractSummary ==
    /\ pc = "summary"
    /\ LET summary_section == find_section(sections, summary_pref)
       IN  IF ~Truthy(summary_section)
           THEN /\ pc' = "return"
                /\ UNCHANGED <<formatted, fed, raised, detail>>
           ELSE IF summary_section[1].islist
           THEN /\ raised' = "AttributeError"
                /\ detail' = NotAString
                /\ pc' = "except"
                /\ UNCHANGED <<formatted, fed>>
           ELSE /\ fed' = [fed EXCEPT !.summary = Some(summary_section[1].text)]
                /\ formatted' = [formatted EXCEPT
                                    !.summary = Some(extract_summary(summary_section[1].text))]
                /\ pc' = "return"
                /\ UNCHANGED <<raised, detail>>
    /\ UNCHANGED <<input, resume_text, status, invoked, accepted, locals>>

\* format_resume: line 173, and resume_route.py 49-56
Return ==
    /\ pc = "return"
    /\ status' = IF entry = "upload" THEN 200 ELSE status
    /\ pc' = "done"
    /\ UNCHANGED <<input, resume_text, detail, raised, invoked, accepted, locals,
                   formatted, fed>>

\* the outcome of a call, as its caller sees it
Outcome == [status |-> status, detail |-> detail, raised |-> raised,
            accepted |-> accepted, profile |-> formatted]

\* the same input is submitted again
Repeat ==
    /\ pc = "done"
    /\ entry # "find_contacts"
    /\ ncall < MaxCalls
    /\ ncall' = ncall + 1
    /\ earlier' = Append(earlier, Outcome)
    /\ pc' = CASE entry = "upload" -> "receive"
               [] entry = "is_resume" -> "classify"
               [] OTHER -> "format"
    /\ resume_text' = IF entry = "upload" THEN "" ELSE resume_text
    /\ status' = 0
    /\ detail' = ""
    /\ raised' = ""
    /\ invoked' = <<>>
    /\ accepted' = None
    /\ formatted' = EmptyProfile
    /\ fed' = NoFed
    /\ UNCHANGED <<entry, file, locals, parked, find_result>>

-----------------------------------------------------------------------------
(* GET /company/find: routers/contacts.py 11-166, with score_contact of    *)
(* utils/company_analyzer.py 142-159. A contact is the dict of one entry   *)
(* of Hunter's "emails": first_name, last_name, position, confidence and   *)
(* value (the address). The fields the handler only copies (linkedin,      *)
(* department, seniority) and the company block of the response are left   *)
(* out.                                                                    *)

MaxLimit == 10
MaxContacts == 3

\* score_contact, company_analyzer.py 142-159
score_contact(title, prioritized_roles) ==
    IF title = None \/ title = Some("") THEN 0
    ELSE LET normalized_title == Lower(title[1])
             n == Len(prioritized_roles)
             scores == {n - (k - 1) : k \in {j \in 1..n :
                            Contains(normalized_title, Lower(prioritized_roles[j]))}}
         IN  IF scores = {} THEN 0 ELSE CHOOSE x \in scores : \A y \in scores : y <= x

\* lines 91-113: the candidates, sorted by (role_score, confidence) from the
\* highest down; the sort is stable, so equal keys keep the order of emails
ranked_candidates(emails, prioritized_roles) ==
    LET candidate(contact) ==
            LET joined == Strip(contact.first_name \o " " \o contact.last_name)
            IN  [name |-> IF joined = "" THEN "Unknown" ELSE joined,
                 title |-> contact.position,
                 confidence |-> contact.confidence,
                 email |-> contact.value,
                 role_score |-> score_contact(contact.position, prioritized_roles)]
        ahead(a, b) == \/ a.role_score > b.role_score
                       \/ (a.role_score = b.role_score /\ a.confidence >= b.confidence)
        sorted[k \in 0..Len(emails)] ==
            IF k = 0 THEN <<>>
            ELSE LET c == candidate(emails[k])
                     before == Cardinality({j \in 1..(k - 1) : ahead(sorted[k - 1][j], c)})
                 IN  SubSeq(sorted[k - 1], 1, before) \o <<c>>
                     \o SubSeq(sorted[k - 1], before + 1, k - 1)
    IN  sorted[Len(emails)]

\* lines 115-139 and 162-164: contacts_found, best_contact and all_contacts of
\* the response
find_response(ranked) ==
    LET best_contact == IF Len(ranked) > 0 THEN Some(ranked[1]) ELSE None
        shown(c) == [name |-> c.name, title |-> c.title,
                     confidence |-> c.confidence, email |-> c.email]
    IN  [contacts_found |-> Len(ranked),
         best_contact |-> IF best_contact # None THEN Some(shown(best_contact[1])) ELSE None,
         all_contacts |->
             [k \in 1..Len(ranked) |->
                 [name |-> ranked[k].name, title |-> ranked[k].title,
                  confidence |-> ranked[k].confidence, email |-> ranked[k].email,
                  selected_best_fit |->
                      /\ best_contact # None
                      /\ ranked[k].name = best_contact[1].name
                      /\ ranked[k].email = best_contact[1].email]]]

\* the "emails" lists that Hunter's domain search returns: contacts of one
\* company, no contact twice
HunterEmails ==
    LET pool == { [first_name |-> "Ann", last_name |-> "Lee", position |-> Some("CTO"),
                   confidence |-> 90, value |-> Some("ann@acme.com")],
                  [first_name |-> "Bob", last_name |-> "Ray",
                   position |-> Some("Technical Recruiter"),
                   confidence |-> 95, value |-> Some("bob@acme.com")],
                  [first_name |-> "", last_name |-> "", position |-> None,
                   confidence |-> 0, value |-> Some("info@acme.com")],
                  [first_name |-> "Cy", last_name |-> "Orr", position |-> Some("Founder"),
                   confidence |-> 90, value |-> None] }
    IN  UNION {{e \in [1..n -> pool] : \A i, j \in 1..n : e[i] = e[j] => i = j} :
                   n \in 0..MaxContacts}

\* a client gets /company/find: lines 20-25 check the arguments, lines 39-44
\* the search, lines 60-62 cut the list to `limit`, and the rest answers. The
\* company names drawn hold no '.', '/' or '://' (lines 28-35 pass them), and
\* the roles are those of the sizes "unknown" and "large_50_plus"; the details
\* are written without the backquotes of the source
FindContacts ==
    /\ pc = "idle"
    /\ entry' = "find_contacts"
    /\ ncall' = 1
    /\ pc' = "done"
    /\ \E company \in {"", " ", "Acme"}, limit \in {0, 1, 2, MaxLimit, MaxLimit + 1},
          success \in BOOLEAN, emails \in HunterEmails,
          prioritized_roles \in
              { <<"CTO", "Founder", "Head of Engineering", "Engineering Manager",
                  "Technical Recruiter">>,
                <<"Technical Recruiter", "Talent Acquisition", "Senior Recruiter",
                  "Recruiter", "Hiring Manager", "Engineering Manager",
                  "Director of Engineering", "VP Engineering", "Head of Engineering">> } :
          IF Strip(company) = ""
          THEN /\ status' = 400
               /\ detail' = "company is required and cannot be empty."
               /\ find_result' = None
          ELSE IF limit < 1 \/ limit > MaxLimit
          THEN /\ status' = 400
               /\ detail' = "limit must be between 1 and 10."
               /\ find_result' = None
          ELSE IF ~success
          THEN /\ status' = 404
               /\ detail' = "Company lookup failed in Hunter: Unknown error"
               /\ find_result' = None
          ELSE /\ status' = 200
               /\ detail' = ""
               /\ find_result' = Some(find_response(
                                       ranked_candidates(Take(emails, limit), prioritized_roles)))
    /\ UNCHANGED <<file, resume_text, raised, invoked, accepted, locals, formatted, fed,
                   earlier, parked>>

Next ==
    \/ FindContacts
    \/ Upload
    \/ CallIsResume
    \/ CallFormat
    \/ Receive
    \/ Decode
    \/ Classify
    \/ Except
    \/ FormatBegin
    \/ SegmentLine
    \/ SegmentEnd
    \/ ExtractSkills
    \/ ExperienceBegin
    \/ ExperienceLine
    \/ ExperienceEnd
    \/ EducationBegin
    \/ EducationLine
    \/ EducationEnd
    \/ ExtractSummary
    \/ Return
    \/ Repeat

Spec == Init /\ [][Next]_vars

-----------------------------------------------------------------------------
(* Two calls of format_resume side by side. Every name the pipeline binds  *)
(* (resume_parser.py 79-173, 196-251, 340-402, 412-469) is a local of the  *)
(* call, and the module holds no mutable global: a call that is pre-empted *)
(* keeps its frame, and finds it as it left it when it resumes.            *)

\* the frame of the call in progress
Frame ==
    [pc |-> pc, entry |-> entry, resume_text |-> resume_text, status |-> status,
     detail |-> detail, raised |-> raised, invoked |-> invoked, accepted |-> accepted,
     lines |-> lines, idx |-> idx, sections |-> sections,
     current_section |-> current_section, current_content |-> current_content,
     exp |-> exp, edu |-> edu, formatted |-> formatted, fed |-> fed]

\* the frame a resumed call would find were `sections` (line 198) and the
\* locals of _extract_experience (lines 340-346) globals of the module
resumed_shared == [parked EXCEPT !.sections = sections, !.exp = exp]

\* the frame a resumed call finds: its own
resumed == parked

\* the scheduler pre-empts the call in progress and resumes the other one
Switch ==
    /\ parked.pc \notin {"none", "done"}
    /\ parked' = Frame
    /\ pc' = resumed.pc
    /\ entry' = resumed.entry
    /\ resume_text' = resumed.resume_text
    /\ status' = resumed.status
    /\ detail' = resumed.detail
    /\ raised' = resumed.raised
    /\ invoked' = resumed.invoked
    /\ accepted' = resumed.accepted
    /\ lines' = resumed.lines
    /\ idx' = resumed.idx
    /\ sections' = resumed.sections
    /\ current_section' = resumed.current_section
    /\ current_content' = resumed.current_content
    /\ exp' = resumed.exp
    /\ edu' = resumed.edu
    /\ formatted' = resumed.formatted
    /\ fed' = resumed.fed
    /\ UNCHANGED <<file, ncall, earlier, find_result>>

\* the texts of the two calls
ParTexts ==
    { "Jane Doe\njane@x.com\nSkills\nPython, Go\nExperience\nDev 2019 - 2020\nBeta Inc\n* Built X\n* Ran Y",
      "Experience\nOps Jan 2021 - Present\nGamma Co Austin, TX\n* last\nEducation\nState University Sep 2019 - May 2023\nBachelor of Science (GPA: 3.8/4.0) Boston, MA",
      "Summary\nBackend developer\nSkills\nRust | C\nEducation\nCity College Sep 2019 - Present\nDiploma in Design",
      "John Roe\nTechnical Skills\nGo, SQL" }

\* two callers have called format_resume, each on a text of its own
InitPar ==
    /\ pc = "format"
    /\ entry = "format_resume"
    /\ file = GoodFile(<<>>)
    /\ resume_text \in ParTexts
    /\ status = 0
    /\ detail = ""
    /\ raised = ""
    /\ invoked = <<>>
    /\ accepted = None
    /\ lines = <<>>
    /\ idx = 1
    /\ sections = <<>>
    /\ current_section = None
    /\ current_content = <<>>
    /\ exp = NoCall.exp
    /\ edu = NoCall.edu
    /\ formatted = EmptyProfile
    /\ fed = NoFed
    /\ ncall = 1
    /\ earlier = <<>>
    /\ find_result = None
    /\ parked \in {[NoCall EXCEPT !.pc = "format", !.entry = "format_resume",
                                  !.resume_text = t] : t \in ParTexts}

NextPar ==
    \/ Switch
    \/ FormatBegin
    \/ SegmentLine
    \/ SegmentEnd
    \/ ExtractSkills
    \/ ExperienceBegin
    \/ ExperienceLine
    \/ ExperienceEnd
    \/ EducationBegin
    \/ EducationLine
    \/ EducationEnd
    \/ ExtractSummary
    \/ Return

SpecPar == InitPar /\ [][NextPar]_vars

-----------------------------------------------------------------------------
(* The pipeline run to its end by one caller, as a function of the text.   *)

RECURSIVE parse_sections_from(_, _, _, _, _)
\* the loop of lines 214-245 from line i on, and lines 247-251
parse_sections_from(ls, i, secs, cur, content) ==
    IF i > Len(ls) THEN flush_section(secs, cur, content)
    ELSE LET r == seg_step(secs, cur, content, ls[i])
         IN  parse_sections_from(ls, i + 1, r.sections, r.current_section,
                                 r.current_content)

\* _parse_sections
parse_sections(text) == parse_sections_from(Split(text, "\n"), 1, <<>>, None, <<>>)

RECURSIVE exp_run(_)
\* the loop of lines 348-394, up to its end or to the iteration that raises
exp_run(st) ==
    IF st.i > Len(st.lines) \/ exp_step_raises(st, st.lines[st.i]) THEN st
    ELSE exp_run(exp_step(st, st.lines[st.i]))

RECURSIVE edu_run(_)
\* the loop of lines 417-463
edu_run(st) ==
    IF st.i > Len(st.lines) THEN st ELSE edu_run(edu_step(st, st.lines[st.i]))

\* what a sub-extractor does with the section found for it: `found` is the
\* result of _find_section, `field` the key of the profile, `value` the
\* extractor's result and `failed` whether the extractor raised
Extracted(out, found, field, value, failed) ==
    IF out.raised # "" \/ ~Truthy(found) THEN out
    ELSE IF found[1].islist THEN [out EXCEPT !.raised = "AttributeError"]
    ELSE IF failed THEN [out EXCEPT !.raised = "KeyError"]
    ELSE [out EXCEPT !.profile = [out.profile EXCEPT ![field] = value]]

\* format_resume: the exception it raises ("" when none) and the profile
format_resume(text) ==
    LET ls == Split(text, "\n")
        secs == parse_sections(text)
        found(pref) == find_section(secs, pref)
        text_of(pref) == IF Truthy(found(pref)) /\ ~found(pref)[1].islist
                         THEN found(pref)[1].text ELSE ""
        exp_end == exp_run(exp_init(text_of(experience_pref)))
        exp_failed == exp_end.i <= Len(exp_end.lines) \/ exp_flush_raises(exp_end)
        edu_end == edu_run(edu_init(text_of(education_pref)))
        out0 == [raised |-> "",
                 profile |-> [EmptyProfile EXCEPT
                     !.name = extract_name(ls),
                     !.email = extract_email(text),
                     !.linkedin = extract_handle(text, "linkedin.com/in/"),
                     !.github = extract_handle(text, "github.com/"),
                     !.phone = extract_phone(text)]]
        out1 == Extracted(out0, found(skills_pref), "skills",
                          extract_skills(text_of(skills_pref)), FALSE)
        out2 == Extracted(out1, found(experience_pref), "experience",
                          IF exp_failed THEN <<>> ELSE exp_result(exp_end), exp_failed)
        out3 == Extracted(out2, found(education_pref), "education",
                          edu_result(edu_end), FALSE)
    IN  IF name_raises(ls) THEN [raised |-> "IndexError", profile |-> EmptyProfile]
        ELSE Extracted(out3, found(summary_pref), "summary",
                       Some(extract_summary(text_of(summary_pref))), FALSE)

-----------------------------------------------------------------------------
(* Properties.                                                             *)

Range(seq) == {seq[i] : i \in 1..Len(seq)}

Last(seq) == seq[Len(seq)]

\* C1: a profile never holds more than 50 skills, more than 10 experience
\* entries or more than 5 education entries, however many the text yields
C1_Caps ==
    /\ Len(formatted.skills) <= 50
    /\ Len(formatted.experience) <= 10
    /\ Len(formatted.education) <= 5

\* a returned profile with every list at its cap, cut from longer lists
C1_Capped ==
    /\ pc = "done"
    /\ raised = ""
    /\ fed.skills # None
    /\ Len(clean_skills(collect_skills(Split(fed.skills[1], "\n")), <<>>, {})) > 50
    /\ Len(formatted.skills) = 50
    /\ Len(exp.experiences) > 10
    /\ Len(formatted.experience) = 10
    /\ Len(edu.education) > 5
    /\ Len(formatted.education) = 5

C2_SectionWords ==
    {"education", "experience", "work experience", "employment", "skills",
     "technical skills", "qualifications", "summary", "objective", "about",
     "profile"}

C2_DomainWords ==
    {"university", "college", "degree", "bachelor", "master", "intern",
     "engineer", "developer", "software", "programming", "gpa", "graduated",
     "certification", "project"}

C2_Hits(words, text_lower) == Cardinality({w \in words : Contains(text_lower, w)})

\* is_resume has just answered: `accepted` and the text stay as they are until
\* the call is over
C2_Answered ==
    /\ accepted # None
    /\ IF entry = "is_resume" THEN pc = "done" ELSE pc \in {"format", "except"}

\* C2: is_resume answers true exactly when the trimmed text has at least 50
\* characters and holds, without regard to case, at least 2 of the 11 section
\* keywords or at least 3 of the 14 domain keywords
C2_Classifier ==
    /\ Cardinality(C2_SectionWords) = 11
    /\ Cardinality(C2_DomainWords) = 14
    /\ C2_Answered =>
          LET text_lower == Lower(resume_text)
          IN  accepted[1] = (/\ Len(Strip(resume_text)) >= 50
                             /\ \/ C2_Hits(C2_SectionWords, text_lower) >= 2
                                \/ C2_Hits(C2_DomainWords, text_lower) >= 3)

\* a text of exactly 50 trimmed characters inside surrounding whitespace is
\* accepted
C2_AcceptedAtThreshold ==
    /\ accepted = Some(TRUE)
    /\ Len(Strip(resume_text)) = 50
    /\ Len(resume_text) > 50

\* C3: when the classifier rejects the text of an upload, format_resume is not
\* invoked and no extraction follows; the HTTPException raised comes back as
\* status 400 with the 'does not appear to be a resume' detail
C3_RejectionStops ==
    (entry = "upload" /\ accepted = Some(FALSE)) =>
        /\ "format_resume" \notin Range(invoked)
        /\ formatted = EmptyProfile
        /\ fed = NoFed
        /\ pc \in {"except", "done"}
        /\ raised = "HTTPException"
        /\ pc = "done" =>
              /\ status = 400
              /\ Contains(detail, "does not appear to be a resume")

\* the response to an upload the classifier rejected
C3_Rejected ==
    /\ entry = "upload"
    /\ pc = "done"
    /\ accepted = Some(FALSE)
    /\ invoked = <<"is_resume">>
    /\ status = 400

\* the file passes the checks of the route, is read, and every page of it
\* yields no text or whitespace only
C4_BlankDecoded ==
    /\ entry = "upload"
    /\ pc \notin {"idle", "receive", "decode"}
    /\ Len(file.filename) > 0
    /\ EndsWith(Lower(file.filename), ".pdf")
    /\ file.content_type = PDF_MIME_TYPE
    /\ file.size > 0
    /\ file.readable
    /\ \A i \in 1..Len(file.pages) : Strip(file.pages[i]) = ""

\* C4: an upload whose decoded text is empty or whitespace only ends at the
\* decoder's RuntimeError: neither is_resume nor format_resume is invoked
C4_BlankAborts ==
    C4_BlankDecoded =>
        /\ invoked = <<>>
        /\ accepted = None
        /\ formatted = EmptyProfile
        /\ pc \in {"except", "done"}
        /\ raised = "RuntimeError"

\* the response to an upload of whitespace-only pages
C4_BlankAnswered ==
    /\ C4_BlankDecoded
    /\ pc = "done"
    /\ Len(file.pages) > 0
    /\ status = 500
    /\ invoked = <<>>

C5_Optional(v) == v = None \/ Len(v) = 1

\* C5: format_resume raises nothing on any string; a field it cannot extract
\* is absent and a list it cannot fill is empty
C5_NeverRaises ==
    "format_resume" \in Range(invoked) =>
        /\ raised = ""
        /\ pc # "except"
        /\ C5_Optional(formatted.name)
        /\ C5_Optional(formatted.email)
        /\ C5_Optional(formatted.phone)
        /\ C5_Optional(formatted.linkedin)
        /\ C5_Optional(formatted.github)
        /\ C5_Optional(formatted.summary)
        /\ Len(formatted.skills) >= 0
        /\ Len(formatted.experience) >= 0
        /\ Len(formatted.education) >= 0

\* a direct call on a text with no '@', no header and no name returns the
\* profile of absent fields and empty lists
C5_DegradedProfile ==
    /\ entry = "format_resume"
    /\ pc = "done"
    /\ Len(resume_text) > 0
    /\ ~Contains(resume_text, "@")
    /\ raised = ""
    /\ formatted = EmptyProfile

\* C6: a later run of the pipeline on the same text yields the profile, and
\* the response, of every earlier run
C6_Deterministic ==
    (pc = "done" /\ ncall > 1) =>
        \A k \in 1..Len(earlier) :
            /\ earlier[k].profile = formatted
            /\ earlier[k].accepted = accepted
            /\ earlier[k].status = status
            /\ earlier[k].detail = detail
            /\ earlier[k].raised = raised

\* a second upload of a resume with experience entries has been answered
C6_SecondRun ==
    /\ entry = "upload"
    /\ pc = "done"
    /\ ncall = 2
    /\ Len(earlier) = 1
    /\ status = 200
    /\ Len(formatted.experience) > 0
    /\ Len(formatted.skills) > 0

RECURSIVE C7_Collect(_, _, _, _)
\* the content lines of ls[i..] that stand under a header of `key`, cur being
\* the key of the header open at i
C7_Collect(ls, i, cur, key) ==
    IF i > Len(ls) THEN <<>>
    ELSE LET line == Strip(ls[i])
             k == matched_keyword(Lower(line))
         IN  IF Len(line) = 0 THEN C7_Collect(ls, i + 1, cur, key)
             ELSE IF k > 0 THEN C7_Collect(ls, i + 1, Some(section_keywords[k]), key)
             ELSE IF cur = Some(key) THEN <<line>> \o C7_Collect(ls, i + 1, cur, key)
             ELSE C7_Collect(ls, i + 1, cur, key)

\* C7: a key stands once in the SectionMap, and what it holds is everything
\* collected under every occurrence of its header, earlier ones included
C7_RepeatedHeaderAccumulates ==
    pc = "skills" =>
        /\ \A i, j \in 1..Len(sections) : sections[i].name = sections[j].name => i = j
        /\ \A i \in 1..Len(sections) :
              ~sections[i].islist =>
                  sections[i].text = Join(C7_Collect(lines, 1, None, sections[i].name), "\n")

\* the line is no header by equality or by prefix, and holds a keyword
C8_OnlyContains(raw) ==
    LET l == Lower(Strip(raw))
    IN  /\ \A k \in 1..Len(section_keywords) :
              /\ l # section_keywords[k]
              /\ ~StartsWith(l, section_keywords[k] \o " ")
              /\ ~StartsWith(l, section_keywords[k] \o ":")
        /\ \E k \in 1..Len(section_keywords) : Contains(l, section_keywords[k])

\* the keywords the line holds
C8_Held(raw) ==
    {k \in 1..Len(section_keywords) : Contains(Lower(Strip(raw)), section_keywords[k])}

\* C8 as stated: with a section open, a line that only contains a keyword
\* stays in the open section
C8_ContainmentNeverRetriggers ==
    [][(/\ pc = "segment"
        /\ idx <= Len(lines)
        /\ current_section # None
        /\ C8_OnlyContains(lines[idx]))
       => /\ current_section' = current_section
          /\ current_content' = Append(current_content, Strip(lines[idx]))
          /\ sections' = sections]_vars

\* C8: with a section open, a line that only contains keywords stays in the
\* open section when each keyword it holds has at most 5 characters, and
\* opens the section of the first keyword of more than 5 characters otherwise
C8_ShortContainmentOnly ==
    [][(/\ pc = "segment"
        /\ idx <= Len(lines)
        /\ current_section # None
        /\ C8_OnlyContains(lines[idx]))
       => IF \A k \in C8_Held(lines[idx]) : Len(section_keywords[k]) <= 5
          THEN /\ current_section' = current_section
               /\ current_content' = Append(current_content, Strip(lines[idx]))
               /\ sections' = sections
          ELSE /\ \E k \in C8_Held(lines[idx]) :
                     /\ Len(section_keywords[k]) > 5
                     /\ \A j \in C8_Held(lines[idx]) :
                            Len(section_keywords[j]) > 5 => k <= j
                     /\ current_section' = Some(section_keywords[k])
               /\ current_content' = <<>>]_vars

\* a line holding 'about' has been appended to the open section
C8_AboutAppended ==
    /\ pc = "segment"
    /\ idx > 1
    /\ idx <= Len(lines) + 1
    /\ C8_OnlyContains(lines[idx - 1])
    /\ \A k \in C8_Held(lines[idx - 1]) : Len(section_keywords[k]) <= 5
    /\ current_section # None
    /\ current_content # <<>>
    /\ Last(current_content) = Strip(lines[idx - 1])

\* C9: a header line opens the section of the matching keyword that stands
\* first in the table, never that of a keyword contained in it: 'Technical
\* Skills' opens `technical skills`, 'Work Experience' opens `work experience`
C9_LongerKeywordFirst ==
    [][(pc = "segment" /\ idx <= Len(lines)) =>
          LET l == Lower(Strip(lines[idx]))
          IN  /\ l = "technical skills" => current_section' = Some("technical skills")
              /\ l = "work experience" => current_section' = Some("work experience")
              /\ \A a, b \in 1..Len(section_keywords) :
                    (/\ a # b
                     /\ Contains(section_keywords[b], section_keywords[a])
                     /\ is_header_for(l, section_keywords[a])
                     /\ is_header_for(l, section_keywords[b]))
                    => current_section' # Some(section_keywords[a])]_vars

\* the line 'Technical Skills' has opened the section `technical skills`
C9_TechnicalSkillsOpened ==
    /\ pc = "segment"
    /\ idx > 1
    /\ idx <= Len(lines) + 1
    /\ Lower(Strip(lines[idx - 1])) = "technical skills"
    /\ current_section = Some("technical skills")
    /\ current_content = <<>>

\* the content under the first key of prefs that stands in the SectionMap
C10_Preferred(prefs) ==
    LET present == {k \in 1..Len(prefs) : DictHas(sections, prefs[k])}
        first == CHOOSE k \in present : \A j \in present : k <= j
    IN  IF present = {} THEN None
        ELSE IF DictGet(sections, prefs[first]).text = "" THEN None
        ELSE Some(DictGet(sections, prefs[first]).text)

\* C10: each extractor is fed the content of the earliest key of its
\* preference list that stands in the SectionMap, whatever the order in which
\* the sections came
C10_EarliestPreferredKey ==
    (pc \in {"return", "done"} /\ "format_resume" \in Range(invoked) /\ raised = "") =>
        /\ fed.skills = C10_Preferred(<<"skills", "technical skills", "technical", "technologies">>)
        /\ fed.experience = C10_Preferred(<<"experience", "work experience", "employment", "work history">>)
        /\ fed.education = C10_Preferred(<<"education", "academic", "qualifications">>)
        /\ fed.summary = C10_Preferred(<<"summary", "about", "profile", "objective">>)

\* the first n entries of seq, all of them when there are fewer
C11_First(seq, n) == SubSeq(seq, 1, IF Len(seq) < n THEN Len(seq) ELSE n)

\* the line is not email-like, not URL-like, no date range, and has 2 to 4
\* words that each start with an uppercase letter
C11_Qualifies(line) ==
    /\ ~is_email(line) /\ ~is_url(line) /\ ~is_date_range(line)
    /\ Len(Words(line)) \in 2..4
    /\ \A k \in 1..Len(Words(line)) : Ch(Words(line)[k], 1) \in UpperCase

\* the first qualifying line among the first 5 non-blank lines of the text
C11_Name(text) ==
    LET scanned == C11_First(SelectNonEmpty(StripAll(Split(text, "\n"))), 5)
        hits == {i \in 1..Len(scanned) : C11_Qualifies(scanned[i])}
    IN  IF hits = {} THEN None
        ELSE Some(scanned[CHOOSE i \in hits : \A j \in hits : i <= j])

\* C11: the name is the first qualifying line among the first 5 non-blank
\* lines of the text, blank lines not counting toward the 5, and is absent
\* when none of them qualifies
C11_NameAmongNonBlank ==
    (pc \in {"segment", "return", "done"} /\ "format_resume" \in Range(invoked)) =>
        formatted.name = C11_Name(resume_text)

\* the items collected from the skills section, each one cleaned
C12_Items ==
    LET raw == collect_skills(Split(fed.skills[1], "\n"))
    IN  [i \in 1..Len(raw) |-> skill_clean(raw[i])]

RECURSIVE C12_FirstSeen(_, _)
\* the items of index i and more that are longer than one character, no stop
\* word, and equal ignoring case to no item before them
C12_FirstSeen(items, i) ==
    IF i > Len(items) THEN <<>>
    ELSE IF /\ Len(items[i]) > 1
            /\ Lower(items[i]) \notin {"and", "or", "the", "a", "an"}
            /\ \A j \in 1..(i - 1) : Lower(items[j]) # Lower(items[i])
         THEN <<items[i]>> \o C12_FirstSeen(items, i + 1)
         ELSE C12_FirstSeen(items, i + 1)

\* C12: no two skills are equal ignoring case; of each group of case variants
\* the first one met is kept, and the skills stand in order of discovery
C12_CaseInsensitiveDedup ==
    (pc \in {"return", "done"} /\ fed.skills # None) =>
        /\ \A i, j \in 1..Len(formatted.skills) :
              Lower(formatted.skills[i]) = Lower(formatted.skills[j]) => i = j
        /\ formatted.skills = C11_First(C12_FirstSeen(C12_Items, 1), 50)

\* 'Languages: Python, python, PYTHON, Go' has given exactly Python, Go
C12_PythonOnce ==
    /\ pc = "done"
    /\ fed.skills = Some("Languages: Python, python, PYTHON, Go")
    /\ formatted.skills = <<"Python", "Go">>

\* the line without its bullet prefix
C13_Payload(raw) == Strip(LStripSet(Strip(raw), {BULLET, "-"}))

\* the items of the section when a bullet-prefixed line is split like any
\* other line
C13_Items ==
    LET ls == Split(fed.skills[1], "\n")
        raw == collect_skills([i \in 1..Len(ls) |-> C13_Payload(ls[i])])
    IN  [i \in 1..Len(raw) |-> skill_clean(raw[i])]

\* C13: every non-blank line of the skills section contributes its items, a
\* bullet-prefixed line with content included; only a line that is nothing
\* but a bullet prefix contributes none
C13_BulletLinesCollected ==
    (pc \in {"return", "done"} /\ fed.skills # None) =>
        formatted.skills = C11_First(C12_FirstSeen(C13_Items, 1), 50)

\* the non-blank lines of the experience section, trimmed
C14_Lines == SelectNonEmpty(StripAll(Split(fed.experience[1], "\n")))

C14_IsBullet(line) == StartsWith(line, BULLET) \/ StartsWith(line, "-")

\* a date token starts at position i: a month name and a year, or a year and
\* a dash
C14_TokenAt(line, i) ==
    \/ MonthYearAt(Lower(line), i) > 0
    \/ (Year4At(line, i) /\ DashAt(line, i + 4) > 0)

\* the position of the first date token of the line
C14_TokenStart(line) ==
    CHOOSE i \in 1..Len(line) :
        C14_TokenAt(line, i) /\ \A j \in 1..(i - 1) : ~C14_TokenAt(line, j)

\* the line ends with a 'City, ST' suffix that starts at position i
C14_CityAt(line, i) ==
    /\ i > 1
    /\ Ch(line, i - 1) \in Whitespace
    /\ Ch(line, i) \in UpperCase
    /\ LET l == Run(line, i + 1, LowerCase)
           e == i + 2 + l + Run(line, i + 2 + l, Whitespace)
       IN  /\ l >= 1
           /\ i + 1 + l <= Len(line)
           /\ Ch(line, i + 1 + l) = ","
           /\ e + 1 = Len(line)
           /\ Ch(line, e) \in UpperCase
           /\ Ch(line, e + 1) \in UpperCase

\* the section is a 'title + date range' line, a 'company City, ST' line, and
\* bullet lines
C14_Shape ==
    /\ fed.experience # None
    /\ Len(C14_Lines) >= 2
    /\ ~C14_IsBullet(C14_Lines[1]) /\ is_date_range(C14_Lines[1])
    /\ ~C14_IsBullet(C14_Lines[2]) /\ ~is_date_range(C14_Lines[2])
    /\ \E i \in 1..Len(C14_Lines[2]) : C14_CityAt(C14_Lines[2], i)
    /\ \A k \in 3..Len(C14_Lines) : C14_IsBullet(C14_Lines[k])

\* the text of the bullet lines of ls, in order, those with no text left out
C14_Bullets(ls) ==
    SelectNonEmpty([k \in 1..Len(ls) |->
                       IF C14_IsBullet(ls[k]) THEN C13_Payload(ls[k]) ELSE ""])

\* C14: a section made of a 'title + date range' line, a 'company City, ST'
\* line and bullet lines gives exactly one entry: title the trimmed text before
\* the first date token, duration the text from there on, company and location
\* split from the second line, description the bullet texts in order
C14_OneEntry ==
    /\ (pc \in {"return", "done"} /\ raised = "" /\ C14_Shape) =>
          LET first == C14_Lines[1]
              second == C14_Lines[2]
              p == C14_TokenStart(first)
              c == CHOOSE i \in 1..Len(second) : C14_CityAt(second, i)
          IN  formatted.experience =
                 <<[title |-> Some(Strip(SubSeq(first, 1, p - 1))),
                    duration |-> Some(SubSeq(first, p, Len(first))),
                    company |-> Some(Strip(SubSeq(second, 1, c - 1))),
                    location |-> Some(SubSeq(second, c, Len(second))),
                    description |-> Some(C14_Bullets(C14_Lines))]>>
    /\ (pc \in {"return", "done"} /\ raised = ""
        /\ fed.experience = Some("Software Engineer Intern Jan 2023 - Present\nAcme Corp Austin, TX\n* Built X")) =>
          formatted.experience =
             <<[title |-> Some("Software Engineer Intern"),
                duration |-> Some("Jan 2023 - Present"),
                company |-> Some("Acme Corp"),
                location |-> Some("Austin, TX"),
                description |-> Some(<<"Built X">>)]>>

\* a section of that shape with two bullet lines has given its one entry
C14_EntryReturned ==
    /\ pc = "done"
    /\ C14_Shape
    /\ Len(C14_Lines) = 4
    /\ Len(formatted.experience) = 1
    /\ Len(formatted.experience[1].description[1]) = 2

\* the boundary lines of the section: its date-range lines, by index in ls
C15_Boundaries(ls) ==
    {k \in 1..Len(ls) : ~C14_IsBullet(ls[k]) /\ is_date_range(ls[k])}

\* the lines after boundary b, up to the next boundary or the end
C15_Block(ls, b) ==
    LET later == {k \in C15_Boundaries(ls) : k > b}
        stop == IF later = {} THEN Len(ls) + 1
                ELSE CHOOSE k \in later : \A j \in later : k <= j
    IN  SubSeq(ls, b + 1, stop - 1)

\* the entry opened at boundary b is emitted: it has a title, or a company
\* line follows
C15_Emitted(ls, b) ==
    \/ ~C14_TokenAt(ls[b], 1)
    \/ \E k \in 1..Len(C15_Block(ls, b)) : ~C14_IsBullet(C15_Block(ls, b)[k])

RECURSIVE C15_Descriptions(_, _)
\* the bullets of the block of each emitted entry, from boundary b on
C15_Descriptions(ls, b) ==
    IF b > Len(ls) THEN <<>>
    ELSE IF b \in C15_Boundaries(ls) /\ C15_Emitted(ls, b)
    THEN <<C14_Bullets(C15_Block(ls, b))>> \o C15_Descriptions(ls, b + 1)
    ELSE C15_Descriptions(ls, b + 1)

\* C15: the description of every emitted entry is exactly the bullet lines
\* between its boundary line and the next boundary line or the end of the
\* section, in text order, pending bullets included
C15_BulletsOfTheirEntry ==
    (pc \in {"return", "done"} /\ raised = "" /\ fed.experience # None) =>
        LET descs == C15_Descriptions(C14_Lines, 1)
        IN  /\ Len(exp.experiences) = Len(descs)
            /\ \A k \in 1..Len(descs) : exp.experiences[k].description = Some(descs[k])
            /\ \A k \in 1..Len(formatted.experience) :
                  formatted.experience[k].description = Some(descs[k])

\* two entries have come out of a section with bullets before the first
\* boundary, before the company line and after it
C15_TwoEntries ==
    /\ pc = "done"
    /\ fed.experience # None
    /\ C14_IsBullet(C14_Lines[1])
    /\ Len(formatted.experience) = 2
    /\ Len(formatted.experience[1].description[1]) = 3
    /\ Len(formatted.experience[2].description[1]) = 1

\* the non-blank lines of the education section, trimmed
C16_Lines == SelectNonEmpty(StripAll(Split(fed.education[1], "\n")))

\* the institution lines of the section
C16_Institutions ==
    LET ls == C16_Lines
        inst(k) == /\ ~C14_IsBullet(ls[k])
                   /\ \E w \in {"university", "college", "school", "institute"} :
                          Contains(Lower(ls[k]), w)
    IN  SelectNonEmpty([k \in 1..Len(ls) |-> IF inst(k) THEN ls[k] ELSE ""])

\* a date range of the shared predicate starts at position i: a year range,
\* or a month and year to a month and year, Present or Current
C16_RangeAt(line, i) == YearRangeAt(Lower(line), i) \/ MonthRangeAt(Lower(line), i)

C16_Ranges(line) == {i \in 1..Len(line) : C16_RangeAt(line, i)}

\* C16: an institution line that carries a date range of the shared predicate
\* gives school the text before the range and duration the range; one that
\* carries none gives school the line and no duration
C16_SharedDateRange ==
    (pc \in {"return", "done"} /\ raised = "" /\ fed.education # None
     /\ Len(edu.education) = Len(C16_Institutions)) =>
        \A k \in 1..Len(edu.education) :
            LET line == C16_Institutions[k]
                p == CHOOSE i \in C16_Ranges(line) : \A j \in C16_Ranges(line) : i <= j
            IN  IF C16_Ranges(line) # {}
                THEN /\ edu.education[k].school = Some(Strip(SubSeq(line, 1, p - 1)))
                     /\ edu.education[k].duration = Some(SubSeq(line, p, Len(line)))
                ELSE /\ edu.education[k].school = Some(line)
                     /\ edu.education[k].duration = None

C17_Punctuation == {"(", ")", ",", ".", ";", ":", "-", "/", "!", "?", "'"}

\* the line of the education section the loop is at
C17_Line == Strip(edu.lines[edu.i])

\* the line holds 'gpa' and a '(GPA: X/Y)' marker
C17_HasMarker(line) == Contains(Lower(line), "gpa") /\ gpa_search(line) # <<>>

\* the line is bullet-prefixed or holds an institution keyword
C17_TakenBefore(line) ==
    \/ C14_IsBullet(line)
    \/ \E w \in {"university", "college", "school", "institute"} : Contains(Lower(line), w)

\* the open entry after a marker line, the characters of `leading` and
\* whitespace being stripped from the front of what follows the marker
C17_Parsed(cur, line, leading) ==
    LET m == gpa_search(line)
        before == Strip(RStripSet(Strip(SubSeq(line, 1, m[1] - 1)), {","}))
        after == Strip(LStripSet(SubSeq(line, m[3] + 2, Len(line)), leading \cup Whitespace))
    IN  [cur EXCEPT !.degree = Some(before),
                    !.gpa = Some(SubSeq(line, m[2], m[3])),
                    !.location = IF Len(after) > 0 THEN Some(after) ELSE @]

C18_Joined ==
    LET ls == StripAll(Split(fed.summary[1], "\n"))
    IN  Join(SelectNonEmpty([k \in 1..Len(ls) |->
                                IF StartsWith(ls[k], BULLET) THEN "" ELSE ls[k]]), " ")

\* C18: the summary is the joined text when that has at most 500 characters,
\* and its first 500 characters followed by '...' otherwise; it is never
\* longer than 503 characters
C18_Truncation ==
    (pc \in {"return", "done"} /\ raised = "" /\ fed.summary # None) =>
        /\ formatted.summary # None
        /\ Len(formatted.summary[1]) <= 503
        /\ \A joined \in {C18_Joined} :
              IF Len(joined) <= 500
              THEN formatted.summary[1] = joined
              ELSE formatted.summary[1] = SubSeq(joined, 1, 500) \o "..."

\* a joined text of exactly 500 characters has come back whole
C18_AtTheLimit ==
    /\ pc = "done"
    /\ fed.summary # None
    /\ Len(C18_Joined) = 500
    /\ formatted.summary = Some(C18_Joined)

\* the text holds 'Education', 'Experience' and 'Skills' in some case and none
\* of the 14 domain keywords
C20_ThreeSections ==
    LET text_lower == Lower(resume_text)
    IN  /\ Contains(text_lower, "education")
        /\ Contains(text_lower, "experience")
        /\ Contains(text_lower, "skills")
        /\ C2_Hits(C2_DomainWords, text_lower) = 0

\* C20 as stated: any text that contains 'Education', 'Experience' and
\* 'Skills' and no domain keyword is classified true
C20_AnyLength ==
    (accepted # None /\ C20_ThreeSections) => accepted[1] = TRUE

\* C20: a text of at least 50 characters after trimming that contains
\* 'Education', 'Experience' and 'Skills' and no domain keyword is classified true
C20_LongEnough ==
    (C2_Answered /\ C20_ThreeSections /\ Len(Strip(resume_text)) >= 50) =>
        accepted[1] = TRUE

\* the three section names and filler of no meaning, 50 characters trimmed,
\* have been classified true
C20_ThreeSectionsAccepted ==
    /\ accepted = Some(TRUE)
    /\ C20_ThreeSections
    /\ Len(Strip(resume_text)) = 50
    /\ Contains(resume_text, "Education Experience Skills")

\* the calls that have come to their end
C19_Finished == {f \in {Frame, parked} : f.pc = "done"}

\* C19: under any interleaving of two calls of format_resume, a call that
\* comes to its end has the outcome, exception or profile, that
\* format_resume gives for its text when run alone
C19_Isolation ==
    \A f \in C19_Finished :
        LET alone == format_resume(f.resume_text)
        IN  /\ f.raised = alone.raised
            /\ f.formatted = alone.profile

\* a call has returned a profile with an experience entry while the other
\* call, on another text, stood in the loop of _extract_experience with
\* an open entry and pending bullets
C19_ReturnedBesideOpenEntry ==
    /\ pc = "done"
    /\ raised = ""
    /\ Len(formatted.experience) > 0
    /\ parked.pc = "exp_loop"
    /\ parked.resume_text # resume_text
    /\ Got(parked.exp.current_exp.company)
    /\ Len(parked.exp.current_bullets) > 0
    /\ Len(parked.sections) > 0

\* a line that is neither blank, nor a bullet line, nor a date range
C21_Plain(line) == Len(line) > 0 /\ ~C14_IsBullet(line) /\ ~is_date_range(line)

\* the last boundary line of ls before line i, 0 when there is none
C21_Boundary(ls, i) ==
    LET before == {k \in C15_Boundaries(ls) : k < i}
    IN  IF before = {} THEN 0 ELSE CHOOSE k \in before : \A j \in before : j <= k

\* the plain lines between the last boundary line before line i and line i
C21_PlainSince(ls, i) ==
    {k \in (C21_Boundary(ls, i) + 1)..(i - 1) : C21_Plain(ls[k])}

\* C21: the first plain line after an entry's boundary line, bullet lines in
\* between or not, gives the entry its company, and its location when the line
\* ends in 'City, ST'; every later plain line before the next boundary line
\* leaves the open entry and the result list as they are
C21_CompanyLineOnce ==
    [][(pc = "exp_loop" /\ pc' = "exp_loop" /\ exp.i <= Len(exp.lines)) =>
          LET ls == StripAll(exp.lines)
              i == exp.i
              line == ls[i]
              cities == {c \in 1..Len(line) : C14_CityAt(line, c)}
          IN  (C21_Plain(line) /\ C21_Boundary(ls, i) > 0) =>
                 IF C21_PlainSince(ls, i) = {}
                 THEN /\ exp.current_exp.company = None
                      /\ exp.current_exp.location = None
                      /\ exp'.current_exp =
                            IF cities = {}
                            THEN [exp.current_exp EXCEPT !.company = Some(line)]
                            ELSE LET c == CHOOSE c \in cities : TRUE
                                 IN  [exp.current_exp EXCEPT
                                        !.company = Some(Strip(SubSeq(line, 1, c - 1))),
                                        !.location = Some(SubSeq(line, c, Len(line)))]
                 ELSE /\ exp'.current_exp = exp.current_exp
                      /\ exp'.experiences = exp.experiences
                      /\ exp'.current_bullets = exp.current_bullets]_vars

\* the loop has passed a boundary line, a bullet line, the company line and a
\* later plain line of one entry, whose company is that of the company line
C21_LaterLinePassed ==
    /\ pc = "exp_loop"
    /\ exp.i > 4
    /\ LET ls == StripAll(exp.lines)
           b == C21_Boundary(ls, exp.i - 1)
       IN  /\ C21_Plain(ls[exp.i - 1])
           /\ b > 0
           /\ C14_IsBullet(ls[b + 1])
           /\ C21_PlainSince(ls, exp.i - 1) # {}
           /\ \E k \in C21_PlainSince(ls, exp.i - 1) :
                 /\ \A j \in C21_PlainSince(ls, exp.i - 1) : k <= j
                 /\ exp.current_exp.company = Some(ls[k])
                 /\ ls[exp.i - 1] # ls[k]

\* the entry has a non-empty title or a non-empty company
C22_Named(e) ==
    \/ (e.title # None /\ e.title[1] # "")
    \/ (e.company # None /\ e.company[1] # "")

\* the result list once the open entry of st has been added to it or dropped
C22_Closed(st) ==
    IF C22_Named(st.current_exp)
    THEN Append(st.experiences,
                [st.current_exp EXCEPT !.description =
                     Some(st.current_exp.description[1] \o st.current_bullets)])
    ELSE st.experiences

\* C22: at a boundary line and at the end of the section the open entry goes
\* to the result exactly when its title or its company is non-empty, and is
\* dropped with its pending bullets otherwise; every entry of the result has a
\* non-empty title or company
C22_EmittedWhenNamed ==
    /\ [](\A k \in 1..Len(exp.experiences) : C22_Named(exp.experiences[k]))
    /\ [](\A k \in 1..Len(formatted.experience) : C22_Named(formatted.experience[k]))
    /\ [][(pc = "exp_loop" /\ pc' # "except") =>
             IF exp.i > Len(exp.lines)
             THEN /\ exp'.experiences = C22_Closed(exp)
                  /\ formatted'.experience = Take(C22_Closed(exp), 10)
             ELSE LET ls == StripAll(exp.lines)
                  IN  IF exp.i \in C15_Boundaries(ls)
                      THEN /\ exp'.experiences = C22_Closed(exp)
                           /\ exp'.current_bullets = <<>>
                           /\ exp'.current_exp.description = Some(<<>>)
                      ELSE exp'.experiences = exp.experiences]_vars

\* of three boundary lines two have given an entry: the entry opened by a bare
\* date range with a bullet after it was dropped, the one opened by a bare
\* date range with a company line after it was kept
C22_BareDateDropped ==
    /\ pc = "done"
    /\ fed.experience # None
    /\ Cardinality(C15_Boundaries(C14_Lines)) = 3
    /\ C14_IsBullet(C14_Lines[2])
    /\ Len(formatted.experience) = 2
    /\ formatted.experience[2].title = Some("")
    /\ C22_Named(formatted.experience[2])

\* the school an institution line gives: the text before the date range that
\* line 434 finds, the whole line when it finds none
C23_School(line) ==
    IF edu_date_start(line) > 0
    THEN Strip(SubSeq(line, 1, edu_date_start(line) - 1))
    ELSE line

\* C23 as stated: n institution lines give min(n, 5) entries, one per line
\* in text order, each with a non-empty school
C23_OnePerInstitutionLine ==
    (pc \in {"return", "done"} /\ raised = "" /\ fed.education # None) =>
        LET n == Len(C16_Institutions)
        IN  /\ Len(formatted.education) = (IF n < 5 THEN n ELSE 5)
            /\ \A k \in 1..Len(formatted.education) :
                  /\ formatted.education[k].school = Some(C23_School(C16_Institutions[k]))
                  /\ formatted.education[k].school # Some("")

\* C24: in the response of find_contacts every entry of all_contacts that is
\* not the selected best fit carries no email value, and at most one entry is
\* marked selected_best_fit
C24_EmailOnlyForBestFit ==
    find_result # None =>
        LET all_contacts == find_result[1].all_contacts
        IN  /\ \A k \in 1..Len(all_contacts) :
                  ~all_contacts[k].selected_best_fit => all_contacts[k].email = None
            /\ Cardinality({k \in 1..Len(all_contacts) :
                                all_contacts[k].selected_best_fit}) <= 1

\* the line is recognised as a section header: it is a keyword, begins with a
\* keyword and a space or a colon, or holds a keyword of more than 5 characters
C25_IsHeader(raw) ==
    LET l == Lower(Strip(raw))
    IN  \E k \in 1..Len(section_keywords) :
           \/ l = section_keywords[k]
           \/ StartsWith(l, section_keywords[k] \o " ")
           \/ StartsWith(l, section_keywords[k] \o ":")
           \/ (Len(section_keywords[k]) > 5 /\ Contains(l, section_keywords[k]))

\* the lines handed to the sub-extractors
C25_Fed ==
    UNION {Range(Split(t[1], "\n")) :
              t \in {fed.skills, fed.experience, fed.education, fed.summary} \ {None}}

\* C25: a header line leaves the content of the section it opens empty and
\* changes the SectionMap by nothing but the content collected before it, so
\* that no text of the header line is stored under a key or reaches an extractor
C25_HeaderLineStoresNothing ==
    /\ [][(pc = "segment" /\ idx <= Len(lines) /\ C25_IsHeader(lines[idx])) =>
             /\ current_content' = <<>>
             /\ Len(sections') >= Len(sections)
             /\ \A j \in 1..Len(sections') :
                   \/ (j <= Len(sections) /\ sections'[j] = sections[j])
                   \/ /\ current_section # None
                      /\ sections'[j].name = current_section[1]
                      /\ ~sections'[j].islist
                      /\ sections'[j].text = Join(current_content, "\n")]_vars
    /\ [](\A line \in C25_Fed :
             line # "" => /\ ~C25_IsHeader(line)
                          /\ \E i \in 1..Len(lines) : Strip(lines[i]) = line)

\* the header line 'Skills: Java, SQL' has opened the skills section, and the
\* skills extractor has been handed the lines after it only
C25_ItemsOnHeaderLost ==
    /\ pc = "done"
    /\ lines = <<"Skills: Java, SQL", "Languages: python, Java">>
    /\ fed.skills = Some("Languages: python, Java")
    /\ formatted.skills = <<"python", "Java">>

\* the positions of the text where the national pattern matches
C26_National == {i \in 1..Len(resume_text) : NationalAt(resume_text, i) > 0}

\* the positions of the text where the international pattern matches
C26_International == {i \in 1..Len(resume_text) : InternationalAt(resume_text, i) > 0}

\* C26: whenever the international pattern matches the text the national
\* pattern matches it too; the phone is the trimmed leftmost match of the
\* national pattern, none without one, and never begins with '+'
C26_NationalAlwaysWins ==
    (pc = "done" /\ "format_resume" \in Range(invoked) /\ raised = "") =>
        \A national \in {C26_National}, international \in {C26_International} :
            /\ international # {} => national # {}
            /\ formatted.phone = None <=> national = {}
            /\ formatted.phone # None =>
                  LET p == CHOOSE i \in national : \A j \in national : i <= j
                  IN  /\ formatted.phone[1] =
                            Strip(SubSeq(resume_text, p, p + NationalAt(resume_text, p) - 1))
                      /\ ~StartsWith(formatted.phone[1], "+")
                      /\ \A i \in international :
                            formatted.phone[1] #
                                SubSeq(resume_text, i, i + InternationalAt(resume_text, i) - 1)

\* a text with the number '+1 (123) 456-7890' has given the phone without the
\* country code
C26_CountryCodeLeftOut ==
    /\ pc = "done"
    /\ C26_International # {}
    /\ Contains(resume_text, "+1 (123) 456-7890")
    /\ formatted.phone = Some("(123) 456-7890")

\* the indices, in the section's lines, of its institution lines
C27_InstitutionAt ==
    {k \in 1..Len(C16_Lines) :
        /\ ~C14_IsBullet(C16_Lines[k])
        /\ \E w \in {"university", "college", "school", "institute"} :
               Contains(Lower(C16_Lines[k]), w)}

\* the lines after the n-th institution line, up to the next one or the end
C27_Block(n) ==
    LET at(m) == CHOOSE k \in C27_InstitutionAt :
                     Cardinality({j \in C27_InstitutionAt : j <= k}) = m
        stop == IF n < Cardinality(C27_InstitutionAt) THEN at(n + 1)
                ELSE Len(C16_Lines) + 1
    IN  {C16_Lines[k] : k \in (at(n) + 1)..(stop - 1)}

\* C27: in a section whose institution lines each give an entry, the degree,
\* the gpa and the location of an entry are text of a line between its own
\* institution line and the next one; what stands before the first institution
\* line or under another entry is on no entry
C27_FieldsFromOwnBlock ==
    (pc \in {"return", "done"} /\ raised = "" /\ fed.education # None
     /\ Len(edu.education) = Cardinality(C27_InstitutionAt)) =>
        \A n \in 1..Len(edu.education) :
            \A field \in {edu.education[n].degree, edu.education[n].gpa,
                           edu.education[n].location} \ {None} :
                \E line \in C27_Block(n) : Contains(line, field[1])

\* C28: a line of the experience section opens a new entry, with the title
\* and the duration split from it, exactly when it is a non-bullet date-range
\* line; any other line leaves the title, the duration and the result list as
\* they are. The entries returned are no more than the non-bullet date-range
\* lines, and none when there is no such line
C28_OpenedByDateLineOnly ==
    /\ [][(pc = "exp_loop" /\ pc' = "exp_loop" /\ exp.i <= Len(exp.lines)) =>
             LET line == Strip(exp.lines[exp.i])
             IN  IF Len(line) > 0 /\ ~C14_IsBullet(line) /\ is_date_range(line)
                 THEN LET p == C14_TokenStart(line)
                      IN  exp'.current_exp =
                             [title |-> Some(Strip(SubSeq(line, 1, p - 1))),
                              duration |-> Some(SubSeq(line, p, Len(line))),
                              company |-> None, location |-> None,
                              description |-> Some(<<>>)]
                 ELSE /\ exp'.current_exp.title = exp.current_exp.title
                      /\ exp'.current_exp.duration = exp.current_exp.duration
                      /\ exp'.experiences = exp.experiences]_vars
    /\ []((pc \in {"return", "done"} /\ raised = "" /\ fed.experience # None) =>
             /\ Len(exp.experiences) <= Cardinality(C15_Boundaries(C14_Lines))
             /\ Len(formatted.experience) <= Cardinality(C15_Boundaries(C14_Lines)))

\* a section of bullet lines holding dates and a plain line, with no
\* non-bullet date-range line, has given no entry
C28_BulletDatesOpenNothing ==
    /\ pc = "done"
    /\ fed.experience # None
    /\ Len(C14_Lines) = 3
    /\ \E k \in 1..3 : C14_IsBullet(C14_Lines[k]) /\ is_date_range(C14_Lines[k])
    /\ \E k \in 1..3 : ~C14_IsBullet(C14_Lines[k])
    /\ C15_Boundaries(C14_Lines) = {}
    /\ formatted.experience = <<>>
    /\ exp.current_bullets # <<>>

====
